---- MODULE Spec2Model ----
(***************************************************************************)
(* Model of the dashboard data gateway (Supabase edge functions).          *)
(*                                                                         *)
(* SpecDevice : the device-approval store (security_user_devices) under    *)
(*              concurrent registerLoginEvent, checkDeviceStatus,          *)
(*              confirmDevice and toggleCustomerPaused requests.  Every    *)
(*              `await` of a handler is an interleaving point, so every    *)
(*              action is the code between two awaits.                     *)
(***************************************************************************)
EXTENDS Integers, Sequences, FiniteSets, TLC

(***************************************************************************)
(* Bounds of the model.                                                    *)
(***************************************************************************)
\* number of HTTP requests handled in one behaviour of SpecDevice
MaxReqs == 2

\* SQL NULL / JS null for tokens and timestamps (tokens and instants are >= 1)
Null == 0

Users == {"u1", "u2"}
DeviceIds == {"d1"}
DeviceNames == {"A", "B"}
Keys == Users \X DeviceIds
ReqIds == 1..MaxReqs

VARIABLES
    devices,      \* security_user_devices: (user_id, device_id) -> row
    loginEvents,  \* security_login_events rows
    emails,       \* messages handed to sendEmail
    clientes,     \* UPDATE statements run on a tenant's clientes table
    clock,        \* last instant returned by new Date()
    nextToken,    \* next value returned by crypto.randomUUID()
    started,      \* number of requests received so far
    req,          \* per request: inputs, position (pc), locals, response
    adm,              \* per admin request: inputs, position (pc), checks passed, response
    admStarted,       \* number of admin requests received so far
    metadata,         \* auth.users: user id -> app_metadata / user_metadata roles
    graficos,         \* tenant table graficos: slug -> number of rows
    dashboard_tables, \* tenant table dashboard_tables: slug -> number of rows
    authUsers,        \* auth users created by registerUser
    db_info,          \* ids (id_user) with a row in db_info
    adminWork,        \* privileged operations performed, by request
    fud,              \* the fetchUserData handler: inputs, position (pc), locals, response
    conn,             \* the tenant pool connection: idle, borrowed, released
    rateLimitBuckets, \* http.ts rateLimitBuckets: bucket key -> count, resetAt
    wallClock,        \* Date.now() in milliseconds
    rlCalls,          \* the calls of applyRateLimit so far, with what they returned
    ruCalls,          \* the registerUser calls answered so far: instant, whether 429
    tconn,            \* per request: the handler's pool.connect ... finally scope
    cq,               \* one compilation: template, schema, bundles, results
    rp,               \* one call of resolveParams: schema entry, defaults, provided, result
    pa,               \* one call of parseAllowedRoles: value, result
    gw                \* per request of a rate-limited or tenant endpoint: inputs, position, effects

devVars == <<devices, loginEvents, emails, clientes, clock, nextToken, started, req>>
admVars == <<adm, admStarted, metadata, graficos, dashboard_tables, authUsers, db_info,
             adminWork>>
batchVars == <<fud, conn>>
\* what the device endpoints, the admin endpoints and fetchUserData leave alone
rateVars == <<rateLimitBuckets, wallClock, rlCalls>>
regVars == <<ruCalls>>
connVars == <<tconn>>
compVars == <<cq>>
resVars == <<rp>>
parseVars == <<pa>>
gateVars == <<gw>>
restVars == <<rateVars, regVars, connVars, compVars, resVars, parseVars, gateVars>>
notRateVars == <<devVars, admVars, batchVars, regVars, connVars, compVars, resVars,
                 parseVars, gateVars>>
notConnVars == <<devVars, admVars, batchVars, rateVars, regVars, compVars, resVars,
                 parseVars, gateVars>>
notCompVars == <<devVars, admVars, batchVars, rateVars, regVars, connVars, resVars,
                 parseVars, gateVars>>
notResVars == <<devVars, admVars, batchVars, rateVars, regVars, connVars, compVars,
                parseVars, gateVars>>
notParseVars == <<devVars, admVars, batchVars, rateVars, regVars, connVars, compVars,
                  resVars, gateVars>>
notDevVars == <<admVars, batchVars, restVars>>
notAdmVars == <<devVars, batchVars, restVars>>
notBatchVars == <<devVars, admVars, restVars>>
vars == <<devVars, admVars, batchVars, restVars>>

(***************************************************************************)
(* Device records.                                                         *)
(***************************************************************************)
NoRecord ==
    [status |-> "absent", approval_token |-> Null, confirmed_at |-> Null,
     last_seen_at |-> Null, device_name |-> "A"]

\* the predicate of requireApprovedDevice and of the handlers' branches
IsApproved(record) ==
    record.status = "approved" /\ record.confirmed_at # Null

getDeviceRecord(userId, deviceId) == devices[<<userId, deviceId>>]

RowsWithToken(token) ==
    {k \in Keys : devices[k].status # "absent" /\ devices[k].approval_token = token}

\* upsert(payload, onConflict user_id,device_id): every payload column is written
upsertDeviceRecord(key, payload) == [devices EXCEPT ![key] = payload]

\* update(payload).eq("id", id): only the columns named in updates are written
ApplyUpdates(row, updates) ==
    [f \in DOMAIN row |-> IF f \in DOMAIN updates THEN updates[f] ELSE row[f]]

updateDeviceRecord(key, updates) ==
    [devices EXCEPT ![key] = ApplyUpdates(devices[key], updates)]

\* a requireApprovedDevice that only asks for a record to exist
requireApprovedDevice_AnyRecord(userId, deviceId) ==
    /\ deviceId # "none"
    /\ getDeviceRecord(userId, deviceId).status # "absent"

\* requireApprovedDevice: TRUE when it returns the record, FALSE when it throws
requireApprovedDevice(userId, deviceId) ==
    /\ deviceId # "none"
    /\ deviceId \in DeviceIds
    /\ userId \in Users
    /\ LET record == getDeviceRecord(userId, deviceId)
       IN  record.status # "absent" /\ record.status = "approved" /\ record.confirmed_at # Null

(***************************************************************************)
(* Requests.  bearer is "none" (no Authorization header), "bad" (a token   *)
(* the identity provider rejects) or the principal the token belongs to.   *)
(* deviceId is "none" when the body field / X-Client-Device-Id header is   *)
(* missing or blank.  token is the confirmDevice token (Null: missing).    *)
(***************************************************************************)
\* the Authorization headers tried without a device id: missing, invalid, valid
Bearers == {"none", "bad", "u1"}
DeviceInputs == {"none"} \cup DeviceIds

IdleReq ==
    [kind |-> "none", pc |-> "idle", bearer |-> "none", deviceId |-> "none",
     deviceName |-> "A", resend |-> FALSE, token |-> Null,
     key |-> <<"u1", "d1">>, rec |-> NoRecord, approvalToken |-> Null, now |-> Null,
     requiresConfirmation |-> FALSE, status |-> 0, body |-> ""]

\* the handler returned a Response
Respond(r, base, code, text) ==
    [base EXCEPT !.pc = "done", !.status = code, !.body = text]

\* status field of RegisterLoginResponse / CheckDeviceResponse
ResponseStatus(record) == IF IsApproved(record) THEN "approved" ELSE "pending"

(***************************************************************************)
(* registerLoginEvent                                                      *)
(***************************************************************************)
RegisterInputs ==
    {[bearer |-> b, deviceId |-> "none", deviceName |-> "A", resend |-> FALSE] :
        b \in Bearers}
    \cup
    {in \in [bearer : Users, deviceId : DeviceIds, deviceName : DeviceNames,
             resend : BOOLEAN] :
        in.bearer = "u1" \/ (in.deviceName = "A" /\ ~in.resend)}

\* lines 239-282: preamble, authentication, body parsing, new Date()
RLE_Begin(r) ==
    /\ UNCHANGED notDevVars
    /\ r = started + 1
    /\ \E in \in RegisterInputs :
        LET base == [IdleReq EXCEPT !.kind = "registerLoginEvent", !.bearer = in.bearer,
                        !.deviceId = in.deviceId, !.deviceName = in.deviceName,
                        !.resend = in.resend]
        IN  IF in.bearer = "none"
            THEN /\ req' = [req EXCEPT ![r] = Respond(r, base, 401, "error")]
                 /\ clock' = clock
            ELSE IF in.bearer = "bad"
            THEN \* requireAuthenticatedUser throws inside the try: the catch answers 500
                 /\ req' = [req EXCEPT ![r] = Respond(r, base, 500, "error")]
                 /\ clock' = clock
            ELSE IF in.deviceId = "none"
            THEN /\ req' = [req EXCEPT ![r] = Respond(r, base, 400, "error")]
                 /\ clock' = clock
            ELSE /\ req' = [req EXCEPT ![r] =
                        [base EXCEPT !.pc = "event", !.key = <<in.bearer, in.deviceId>>,
                                     !.now = clock + 1]]
                 /\ clock' = clock + 1
    /\ started' = started + 1
    /\ UNCHANGED <<devices, loginEvents, emails, clientes, nextToken>>

\* lines 284-293: await recordLoginEvent(...)
RLE_RecordEvent(r) ==
    /\ UNCHANGED notDevVars
    /\ req[r].kind = "registerLoginEvent" /\ req[r].pc = "event"
    /\ loginEvents' = loginEvents \cup
          {[req |-> r, user |-> req[r].key[1], device |-> req[r].key[2]]}
    /\ req' = [req EXCEPT ![r].pc = "read"]
    /\ UNCHANGED <<devices, emails, clientes, clock, nextToken, started>>

\* lines 295-299 and 326-354: await getDeviceRecord, then the synchronous code up to
\* the next await (the token is chosen here in both branches)
RLE_Read(r) ==
    /\ UNCHANGED notDevVars
    /\ req[r].kind = "registerLoginEvent" /\ req[r].pc = "read"
    /\ LET record == getDeviceRecord(req[r].key[1], req[r].key[2])
       IN  IF record.status = "absent"
           THEN /\ req' = [req EXCEPT ![r].pc = "upsert", ![r].rec = record,
                                      ![r].approvalToken = nextToken]
                /\ nextToken' = nextToken + 1
           ELSE IF ~IsApproved(record)
           THEN \* deviceRecord.approval_token ?? crypto.randomUUID()
                /\ req' = [req EXCEPT ![r].pc = "mail", ![r].rec = record,
                              ![r].requiresConfirmation = TRUE,
                              ![r].approvalToken =
                                  IF record.approval_token # Null
                                  THEN record.approval_token ELSE nextToken]
                /\ nextToken' = IF record.approval_token # Null
                                THEN nextToken ELSE nextToken + 1
           ELSE /\ req' = [req EXCEPT ![r].pc = "mail", ![r].rec = record]
                /\ nextToken' = nextToken
    /\ UNCHANGED <<devices, loginEvents, emails, clientes, clock, started>>

\* an upsert that stores no approval token
RLE_UpsertPayload_NoToken(r) ==
    [status |-> "pending", approval_token |-> Null,
     confirmed_at |-> Null, last_seen_at |-> req[r].now,
     device_name |-> req[r].deviceName]

\* lines 300-314: await upsertDeviceRecord(...)
RLE_UpsertPayload(r) ==
    [status |-> "pending", approval_token |-> req[r].approvalToken,
     confirmed_at |-> Null, last_seen_at |-> req[r].now,
     device_name |-> req[r].deviceName]

RLE_Upsert(r) ==
    /\ UNCHANGED notDevVars
    /\ req[r].kind = "registerLoginEvent" /\ req[r].pc = "upsert"
    /\ devices' = upsertDeviceRecord(req[r].key, RLE_UpsertPayload(r))
    /\ req' = [req EXCEPT ![r].pc = "mailNew", ![r].rec = devices'[req[r].key],
                          ![r].requiresConfirmation = TRUE]
    /\ UNCHANGED <<loginEvents, emails, clientes, clock, nextToken, started>>

\* lines 316-325 and 379-390: confirmation email, response
RLE_MailNew(r) ==
    /\ UNCHANGED notDevVars
    /\ req[r].kind = "registerLoginEvent" /\ req[r].pc = "mailNew"
    /\ emails' = emails \cup
          {[req |-> r, kind |-> "confirmation", to |-> req[r].key[1],
            token |-> req[r].approvalToken]}
    /\ req' = [req EXCEPT ![r] = Respond(r, req[r], 200, ResponseStatus(req[r].rec))]
    /\ UNCHANGED <<devices, loginEvents, clientes, clock, nextToken, started>>

\* lines 355-363 (device not approved) and 365-373 (approved): await sendEmail
RLE_Mail(r) ==
    /\ UNCHANGED notDevVars
    /\ req[r].kind = "registerLoginEvent" /\ req[r].pc = "mail"
    /\ emails' = emails \cup
          {IF req[r].requiresConfirmation
           THEN [req |-> r, kind |-> "confirmation", to |-> req[r].key[1],
                 token |-> req[r].approvalToken]
           ELSE [req |-> r, kind |-> "login", to |-> req[r].key[1], token |-> Null]}
    /\ req' = [req EXCEPT ![r].pc = "update"]
    /\ UNCHANGED <<devices, loginEvents, clientes, clock, nextToken, started>>

\* an updates object that asks for a new confirmation on every login
RLE_Updates_AlwaysPending(r) ==
    [last_seen_at |-> req[r].now, device_name |-> req[r].deviceName,
     approval_token |-> req[r].approvalToken, status |-> "pending"]

\* lines 327-353: the updates object built from the record that was read
RLE_Updates(r) ==
    LET fields == {"last_seen_at"}
                  \cup (IF req[r].deviceName # req[r].rec.device_name
                        THEN {"device_name"} ELSE {})
                  \cup (IF ~IsApproved(req[r].rec)
                        THEN {"approval_token", "status"} ELSE {})
        values == [last_seen_at |-> req[r].now, device_name |-> req[r].deviceName,
                   approval_token |-> req[r].approvalToken, status |-> "pending"]
    IN  [f \in fields |-> values[f]]

\* lines 376-390: await updateDeviceRecord(deviceRecord.id, updates), response
RLE_Update(r) ==
    /\ UNCHANGED notDevVars
    /\ req[r].kind = "registerLoginEvent" /\ req[r].pc = "update"
    /\ devices' = updateDeviceRecord(req[r].key, RLE_Updates(r))
    /\ req' = [req EXCEPT ![r] =
          Respond(r, [req[r] EXCEPT !.rec = devices'[req[r].key]], 200,
                  ResponseStatus(devices'[req[r].key]))]
    /\ UNCHANGED <<loginEvents, emails, clientes, clock, nextToken, started>>

(***************************************************************************)
(* checkDeviceStatus                                                       *)
(***************************************************************************)
CheckInputs ==
    {[bearer |-> b, deviceId |-> "none", resend |-> FALSE] : b \in Bearers}
    \cup
    {in \in [bearer : Users, deviceId : DeviceIds, resend : BOOLEAN] :
        in.bearer = "u1" \/ ~in.resend}

\* lines 440-473: preamble, authentication, body parsing
CDS_Begin(r) ==
    /\ UNCHANGED notDevVars
    /\ r = started + 1
    /\ \E in \in CheckInputs :
        LET base == [IdleReq EXCEPT !.kind = "checkDeviceStatus", !.bearer = in.bearer,
                        !.deviceId = in.deviceId, !.resend = in.resend]
        IN  req' = [req EXCEPT ![r] =
                IF in.bearer = "none" THEN Respond(r, base, 401, "error")
                ELSE IF in.bearer = "bad" THEN Respond(r, base, 500, "error")
                ELSE IF in.deviceId = "none" THEN Respond(r, base, 400, "error")
                ELSE [base EXCEPT !.pc = "read", !.key = <<in.bearer, in.deviceId>>]]
    /\ started' = started + 1
    /\ UNCHANGED <<devices, loginEvents, emails, clientes, clock, nextToken>>

\* const shouldGenerateNewToken = resend || !deviceRecord.approval_token
shouldGenerateNewToken(resend, record) == resend \/ record.approval_token = Null

\* lines 475-496: await getDeviceRecord, then the synchronous code up to the update
CDS_Read(r) ==
    /\ UNCHANGED notDevVars
    /\ req[r].kind = "checkDeviceStatus" /\ req[r].pc = "read"
    /\ LET record == getDeviceRecord(req[r].key[1], req[r].key[2])
       IN  IF record.status = "absent"
           THEN /\ req' = [req EXCEPT ![r] =
                      Respond(r, [req[r] EXCEPT !.requiresConfirmation = TRUE],
                              200, "unregistered")]
                /\ nextToken' = nextToken
           ELSE IF IsApproved(record)
           THEN /\ req' = [req EXCEPT ![r] =
                      Respond(r, [req[r] EXCEPT !.rec = record], 200,
                              ResponseStatus(record))]
                /\ nextToken' = nextToken
           ELSE IF shouldGenerateNewToken(req[r].resend, record)
           THEN /\ req' = [req EXCEPT ![r].pc = "update", ![r].rec = record,
                              ![r].requiresConfirmation = TRUE,
                              ![r].approvalToken = nextToken]
                /\ nextToken' = nextToken + 1
           ELSE /\ req' = [req EXCEPT ![r].pc = "update", ![r].rec = record,
                              ![r].requiresConfirmation = TRUE,
                              ![r].approvalToken = record.approval_token]
                /\ nextToken' = nextToken
    /\ UNCHANGED <<devices, loginEvents, emails, clientes, clock, started>>

\* lines 491-495: the updates object
CDS_Updates(r) ==
    LET fields == {"status"}
                  \cup (IF shouldGenerateNewToken(req[r].resend, req[r].rec)
                        THEN {"approval_token"} ELSE {})
        values == [status |-> "pending", approval_token |-> req[r].approvalToken]
    IN  [f \in fields |-> values[f]]

\* lines 497-499 (and 515-526 when no email follows)
CDS_Update(r) ==
    /\ UNCHANGED notDevVars
    /\ req[r].kind = "checkDeviceStatus" /\ req[r].pc = "update"
    /\ devices' = updateDeviceRecord(req[r].key, CDS_Updates(r))
    /\ LET mail == shouldGenerateNewToken(req[r].resend, req[r].rec) \/ req[r].resend
           next == [req[r] EXCEPT !.rec = devices'[req[r].key]]
       IN  req' = [req EXCEPT ![r] =
               IF mail THEN [next EXCEPT !.pc = "mail"]
               ELSE Respond(r, next, 200, ResponseStatus(next.rec))]
    /\ UNCHANGED <<loginEvents, emails, clientes, clock, nextToken, started>>

\* lines 501-526: confirmation email (updatedRecord.approval_token ?? approvalToken)
CDS_Mail(r) ==
    /\ UNCHANGED notDevVars
    /\ req[r].kind = "checkDeviceStatus" /\ req[r].pc = "mail"
    /\ emails' = emails \cup
          {[req |-> r, kind |-> "confirmation", to |-> req[r].key[1],
            token |-> IF req[r].rec.approval_token # Null
                      THEN req[r].rec.approval_token ELSE req[r].approvalToken]}
    /\ req' = [req EXCEPT ![r] = Respond(r, req[r], 200, ResponseStatus(req[r].rec))]
    /\ UNCHANGED <<devices, loginEvents, clientes, clock, nextToken, started>>

(***************************************************************************)
(* confirmDevice                                                           *)
(***************************************************************************)
\* tokens a client can present: none, one that was never issued, or an issued one
ConfirmTokens == {Null} \cup (1..nextToken)

\* lines 74-119: preamble, sanitizeToken, await getDeviceRecordByToken, new Date()
CFM_Lookup(r) ==
    /\ UNCHANGED notDevVars
    /\ r = started + 1
    /\ \E t \in ConfirmTokens :
        LET base == [IdleReq EXCEPT !.kind = "confirmDevice", !.token = t]
            rows == RowsWithToken(t)
        IN  IF t = Null
            THEN /\ req' = [req EXCEPT ![r] = Respond(r, base, 400, "error")]
                 /\ clock' = clock
            ELSE IF rows = {}
            THEN /\ req' = [req EXCEPT ![r] = Respond(r, base, 404, "error")]
                 /\ clock' = clock
            ELSE IF Cardinality(rows) > 1
            THEN \* maybeSingle() reports an error, getDeviceRecordByToken throws
                 /\ req' = [req EXCEPT ![r] = Respond(r, base, 500, "error")]
                 /\ clock' = clock
            ELSE /\ \E k \in rows :
                     req' = [req EXCEPT ![r] =
                         [base EXCEPT !.pc = "update", !.key = k, !.rec = devices[k],
                                      !.now = clock + 1]]
                 /\ clock' = clock + 1
    /\ started' = started + 1
    /\ UNCHANGED <<devices, loginEvents, emails, clientes, nextToken>>

\* a confirmation that leaves the token in place
CFM_Updates_KeepToken(r) ==
    [status |-> "approved", confirmed_at |-> req[r].now, last_seen_at |-> req[r].now]

\* a confirmation that forgets confirmed_at
CFM_Updates_NoConfirmedAt(r) ==
    [status |-> "approved", approval_token |-> Null, last_seen_at |-> req[r].now]

\* lines 120-125: the updates of confirmDevice
CFM_Updates(r) ==
    [status |-> "approved", confirmed_at |-> req[r].now, approval_token |-> Null,
     last_seen_at |-> req[r].now]

CFM_Update(r) ==
    /\ UNCHANGED notDevVars
    /\ req[r].kind = "confirmDevice" /\ req[r].pc = "update"
    /\ devices' = updateDeviceRecord(req[r].key, CFM_Updates(r))
    /\ req' = [req EXCEPT ![r].pc = "event", ![r].rec = devices'[req[r].key]]
    /\ UNCHANGED <<loginEvents, emails, clientes, clock, nextToken, started>>

\* lines 127-138: await getAuthUserById, await recordLoginEvent
CFM_RecordEvent(r) ==
    /\ UNCHANGED notDevVars
    /\ req[r].kind = "confirmDevice" /\ req[r].pc = "event"
    /\ loginEvents' = loginEvents \cup
          {[req |-> r, user |-> req[r].key[1], device |-> req[r].key[2]]}
    /\ req' = [req EXCEPT ![r].pc = "mail"]
    /\ UNCHANGED <<devices, emails, clientes, clock, nextToken, started>>

\* lines 140-159: login-notification email, response
CFM_Mail(r) ==
    /\ UNCHANGED notDevVars
    /\ req[r].kind = "confirmDevice" /\ req[r].pc = "mail"
    /\ emails' = emails \cup
          {[req |-> r, kind |-> "login", to |-> req[r].key[1], token |-> Null]}
    /\ req' = [req EXCEPT ![r] = Respond(r, req[r], 200, "approved")]
    /\ UNCHANGED <<devices, loginEvents, clientes, clock, nextToken, started>>

(***************************************************************************)
(* toggleCustomerPaused                                                    *)
(***************************************************************************)
ToggleInputs ==
    {[bearer |-> b, deviceId |-> "none"] : b \in Bearers}
    \cup {[bearer |-> u, deviceId |-> d] : u \in Users, d \in DeviceIds}

\* getClientDeviceId: the trimmed header, null when missing or blank
getClientDeviceId(header) == IF header = "none" THEN "none" ELSE header

\* lines 72-112: preamble, bearer token, await requireAuthenticatedUser
TCP_Begin(r) ==
    /\ UNCHANGED notDevVars
    /\ r = started + 1
    /\ \E in \in ToggleInputs :
        LET base == [IdleReq EXCEPT !.kind = "toggleCustomerPaused",
                        !.bearer = in.bearer, !.deviceId = in.deviceId]
        IN  req' = [req EXCEPT ![r] =
                IF in.bearer \notin Users THEN Respond(r, base, 401, "error")
                ELSE [base EXCEPT !.pc = "device"]]
    /\ started' = started + 1
    /\ UNCHANGED <<devices, loginEvents, emails, clientes, clock, nextToken>>

\* lines 114-120: await requireApprovedDevice(authUser.id, clientDeviceId)
TCP_Device(r) ==
    /\ UNCHANGED notDevVars
    /\ req[r].kind = "toggleCustomerPaused" /\ req[r].pc = "device"
    /\ req' = [req EXCEPT ![r] =
          IF requireApprovedDevice(req[r].bearer, getClientDeviceId(req[r].deviceId))
          THEN [req[r] EXCEPT !.pc = "work"]
          ELSE Respond(r, req[r], 403, "error")]
    /\ UNCHANGED <<devices, loginEvents, emails, clientes, clock, nextToken, started>>

\* lines 122-179: tenant lookup, connection, UPDATE clientes, release
TCP_Work(r) ==
    /\ UNCHANGED notDevVars
    /\ req[r].kind = "toggleCustomerPaused" /\ req[r].pc = "work"
    /\ clientes' = clientes \cup {[req |-> r, user |-> req[r].bearer]}
    /\ req' = [req EXCEPT ![r] = Respond(r, req[r], 200, "toggled")]
    /\ UNCHANGED <<devices, loginEvents, emails, clock, nextToken, started>>

(***************************************************************************)
(* fetchUserData: JSON values and the parameter resolver.                  *)
(***************************************************************************)
\* JSON / JavaScript values, tagged by typeof
Undef == [t |-> "undef"]
JNull == [t |-> "null"]
Str(s) == [t |-> "str", v |-> s]
Num(n) == [t |-> "num", v |-> n]
Bool(b) == [t |-> "bool", v |-> b]
Arr(items) == [t |-> "arr", v |-> items]

IsNullish(value) == value.t \in {"undef", "null"}

\* a ?? b
Coalesce(a, b) == IF IsNullish(a) THEN b ELSE a

\* the error of a thrown Error: the fixed part of its message and the name it quotes
NoError == [msg |-> "", name |-> ""]
Ok(value) == [ok |-> TRUE, v |-> value, error |-> NoError]
Fail(msg, name) == [ok |-> FALSE, v |-> Undef, error |-> [msg |-> msg, name |-> name]]

\* strings that trim() to ""
BlankStrings == {"", " "}
\* Number(s) for the strings it parses; every other string gives NaN
NumberOfString == ("0" :> 0) @@ ("1" :> 1) @@ ("5" :> 5) @@ ("2000" :> 2000)
\* strings whose trim().toLowerCase() is "true" or "1"
TrueStrings == {"true", "TRUE", " true ", "1"}
\* strings matching DATE_ONLY_FORMAT
DateOnlyStrings == {"2025-01-15", "2024-12-16", "1970-01-01"}
\* toDateOnlyISO(new Date(s)) for the other strings Date parses
ParsedDate == ("2025-01-15T10:00:00Z" :> "2025-01-15") @@ ("January 15, 2025" :> "2025-01-15")
\* s.trim().split(",") with trimmed, non-empty items, for strings holding a comma
SplitComma == ("a,b" :> <<"a", "b">>) @@ ("5, 2000" :> <<"5", "2000">>)
\* the instant read by new Date() in computeAutoDefaultValue, as date-only strings
Today == "2025-01-15"
TodayMinus30 == "2024-12-16"
\* parameter names matched by /fim|final|end/i and by /inicio|início|start|begin/i
EndNames == {"end", "data_fim", "agendamento_inicio"}
StartNames == {"start", "data_inicio", "agendamento_inicio"}

\* a schema entry without optional fields
Entry(type) ==
    [type |-> type, required |-> FALSE, enum |-> <<>>, minimum |-> Undef, maximum |-> Undef,
     default |-> Undef, items |-> "none", itemsEnum |-> <<>>, itemsMinimum |-> Undef,
     itemsMaximum |-> Undef]

\* schema.items as an entry of its own
ItemsOf(schema) ==
    [Entry(schema.items) EXCEPT !.enum = schema.itemsEnum, !.minimum = schema.itemsMinimum,
                                !.maximum = schema.itemsMaximum]

Range(seq) == {seq[i] : i \in DOMAIN seq}

RECURSIVE JoinComma(_)
\* Array.prototype.join(",") of strings
JoinComma(strings) ==
    IF Len(strings) = 0 THEN ""
    ELSE IF Len(strings) = 1 THEN strings[1]
    ELSE strings[1] \o "," \o JoinComma(Tail(strings))

RECURSIVE StringOf(_)
\* String(value)
StringOf(value) ==
    CASE value.t = "str" -> value.v
      [] value.t = "num" -> ToString(value.v)
      [] value.t = "bool" -> IF value.v THEN "true" ELSE "false"
      [] value.t = "undef" -> "undefined"
      [] value.t = "null" -> "null"
      [] value.t = "arr" ->
            JoinComma([i \in DOMAIN value.v |->
                          IF IsNullish(value.v[i]) THEN "" ELSE StringOf(value.v[i])])

\* Number(value) of an enum member, NaN as Undef
NumberOf(value) ==
    CASE value.t = "num" -> value
      [] value.t = "bool" -> Num(IF value.v THEN 1 ELSE 0)
      [] value.t = "str" /\ value.v \in BlankStrings -> Num(0)
      [] value.t = "str" /\ value.v \in DOMAIN NumberOfString -> Num(NumberOfString[value.v])
      [] OTHER -> Undef

normalizeBoolean(value) ==
    CASE value.t = "bool" -> value.v
      [] value.t = "str" -> value.v \in TrueStrings
      [] value.t = "num" -> value.v # 0
      [] OTHER -> FALSE

normalizeNumber(value) ==
    IF value.t = "num" THEN Ok(value)
    ELSE IF value.t = "str" /\ value.v \notin BlankStrings /\ value.v \in DOMAIN NumberOfString
         THEN Ok(Num(NumberOfString[value.v]))
    ELSE IF value.t = "bool" THEN Ok(Num(IF value.v THEN 1 ELSE 0))
    ELSE Fail("Valor numérico inválido", "")

\* numbers are epoch milliseconds: the model's numbers all fall on 1970-01-01
normalizeDate(value) ==
    IF value.t = "str" /\ value.v \in DateOnlyStrings THEN Ok(value)
    ELSE IF value.t = "num" THEN Ok(Str("1970-01-01"))
    ELSE IF value.t = "str" /\ value.v \in DOMAIN ParsedDate THEN Ok(Str(ParsedDate[value.v]))
    ELSE Fail("Valor de data inválido", "")

normalizeString(value) ==
    IF value.t = "str" THEN value
    ELSE IF IsNullish(value) THEN Str("")
    ELSE Str(StringOf(value))

\* ensureArray of normalizeArrayValue
ensureArray(input) ==
    CASE input.t = "arr" -> input.v
      [] input.t = "str" ->
            IF input.v \in BlankStrings THEN <<>>
            ELSE IF input.v \in DOMAIN SplitComma
                 THEN [i \in DOMAIN SplitComma[input.v] |-> Str(SplitComma[input.v][i])]
                 ELSE <<input>>
      [] IsNullish(input) -> <<>>
      [] OTHER -> <<input>>

\* the minimum / maximum checks of a normalized array item
ItemInRange(n, schema) ==
    IF ~n.ok THEN n
    ELSE IF schema.minimum.t = "num" /\ n.v.v < schema.minimum.v
         THEN Fail("Valor do array abaixo do mínimo permitido", "")
    ELSE IF schema.maximum.t = "num" /\ n.v.v > schema.maximum.v
         THEN Fail("Valor do array acima do máximo permitido", "")
    ELSE n

\* the enum check of a normalized string
StringInEnum(s, schema, message, paramName) ==
    IF Len(schema.enum) > 0
       /\ s.v \notin {StringOf(schema.enum[i]) : i \in DOMAIN schema.enum}
    THEN Fail(message, paramName)
    ELSE Ok(s)

\* one item of normalizeArrayValue's map
normalizeItem(item, schema) ==
    CASE schema.type = "number" -> ItemInRange(normalizeNumber(item), schema)
      [] schema.type = "boolean" -> Ok(Bool(normalizeBoolean(item)))
      [] schema.type = "date" -> normalizeDate(item)
      [] OTHER -> StringInEnum(normalizeString(item), schema,
                                 "Valor não é permitido para o campo", "")

\* the map of normalizeArrayValue stops at the first item that throws
CollectItems(results) ==
    LET failed == {i \in DOMAIN results : ~results[i].ok}
    IN  IF failed = {}
        THEN Ok(Arr([i \in DOMAIN results |-> results[i].v]))
        ELSE results[CHOOSE i \in failed : \A j \in failed : i <= j]

MapItems(baseArray, schema) ==
    IF schema.items = "none" THEN Ok(Arr(baseArray))
    ELSE CollectItems([i \in DOMAIN baseArray |-> normalizeItem(baseArray[i], ItemsOf(schema))])

normalizeArrayValue(value, schema) == MapItems(ensureArray(value), schema)

\* the minimum / maximum / enum checks of a normalized number
NumberInRange(n, schema, paramName) ==
    IF ~n.ok THEN n
    ELSE IF schema.minimum.t = "num" /\ n.v.v < schema.minimum.v
         THEN Fail("abaixo do mínimo permitido", paramName)
    ELSE IF schema.maximum.t = "num" /\ n.v.v > schema.maximum.v
         THEN Fail("acima do máximo permitido", paramName)
    ELSE IF Len(schema.enum) > 0
            /\ n.v \notin {NumberOf(schema.enum[i]) : i \in DOMAIN schema.enum}
         THEN Fail("Valor não é permitido", paramName)
    ELSE n

\* a required entry without a value is left out of the bundle instead of rejected
normalizeValue_Optional(paramName, schema, value) ==
    IF IsNullish(value)
    THEN Ok(Undef)
    ELSE CASE schema.type = "number" -> NumberInRange(normalizeNumber(value), schema, paramName)
           [] schema.type = "date" -> normalizeDate(value)
           [] schema.type = "boolean" -> Ok(Bool(normalizeBoolean(value)))
           [] schema.type = "array" -> normalizeArrayValue(value, schema)
           [] OTHER -> StringInEnum(normalizeString(value), schema,
                                      "Valor não é permitido", paramName)

normalizeValue(paramName, schema, value) ==
    IF IsNullish(value)
    THEN IF schema.required THEN Fail("Parâmetro obrigatório ausente", paramName)
         ELSE Ok(Undef)
    ELSE CASE schema.type = "number" -> NumberInRange(normalizeNumber(value), schema, paramName)
           [] schema.type = "date" -> normalizeDate(value)
           [] schema.type = "boolean" -> Ok(Bool(normalizeBoolean(value)))
           [] schema.type = "array" -> normalizeArrayValue(value, schema)
           [] OTHER -> StringInEnum(normalizeString(value), schema,
                                      "Valor não é permitido", paramName)

computeAutoDefaultValue(paramName, schema) ==
    IF schema.default # Undef THEN schema.default
    ELSE CASE schema.type = "date" ->
                IF paramName \in EndNames THEN Str(Today)
                ELSE IF paramName \in StartNames THEN Str(TodayMinus30)
                ELSE Str(Today)
           [] schema.type = "number" ->
                IF schema.minimum.t = "num" THEN schema.minimum
                ELSE IF schema.maximum.t = "num" /\ schema.maximum.v < 1000 THEN schema.maximum
                ELSE Num(0)
           [] schema.type = "array" /\ schema.items # "none" /\ Len(schema.itemsEnum) > 0 ->
                Arr(schema.itemsEnum)
           [] OTHER -> Undef

\* an object without keys; also stands for an undefined or null bundle
NoParams == [k \in {} |-> Undef]

\* object[key] when Object.hasOwn(object, key), else undefined
Own(object, key) == IF key \in DOMAIN object THEN object[key] ELSE Undef

\* suppliedValue ?? defaultValue ?? computeAutoDefaultValue(paramName, schemaEntry)
ValueToUse(chosen, paramName, entry) ==
    IF chosen = Undef THEN computeAutoDefaultValue(paramName, entry) ELSE chosen

RECURSIVE ResolveEntries(_, _, _, _, _)
RECURSIVE ResolveNext(_, _, _, _, _, _)
\* the rest of one iteration, once the value is normalized
ResolveNext(schemaEntries, i, defaults, provided, finalParams, normalized) ==
    IF ~normalized.ok THEN normalized
    ELSE ResolveEntries(schemaEntries, i + 1, defaults, provided,
             IF normalized.v = Undef THEN finalParams
             ELSE (schemaEntries[i][1] :> normalized.v) @@ finalParams)

\* the loop over Object.entries(schema): schemaEntries is a sequence of <<name, entry>>
ResolveEntries(schemaEntries, i, defaults, provided, finalParams) ==
    IF i > Len(schemaEntries) THEN Ok(finalParams)
    ELSE ResolveNext(schemaEntries, i, defaults, provided, finalParams,
             normalizeValue(schemaEntries[i][1], schemaEntries[i][2],
                 ValueToUse(Coalesce(Own(provided, schemaEntries[i][1]),
                                     Own(defaults, schemaEntries[i][1])),
                            schemaEntries[i][1], schemaEntries[i][2])))

\* the loop over Object.entries(provided): keys outside the schema pass through
MergeExtra(resolved, schema, provided) ==
    LET extra == DOMAIN provided \ {schema[i][1] : i \in DOMAIN schema}
    IN  IF ~resolved.ok THEN resolved
        ELSE Ok([k \in DOMAIN resolved.v \cup extra |->
                    IF k \in extra THEN provided[k] ELSE resolved.v[k]])

resolveParams(schema, defaults, provided) ==
    MergeExtra(ResolveEntries(schema, 1, defaults, provided, NoParams), schema, provided)

(***************************************************************************)
(* fetchUserData: the template compiler.  A template is a sequence of      *)
(* tokens: SQL text, white space, {{name}} markers, the keywords IN and    *)
(* NOT IN (in any letter case), parentheses and ::type casts.              *)
(***************************************************************************)
Tok(kind, text) == [k |-> kind, s |-> text, n |-> 0]
Sql(text) == Tok("sql", text)
Ws == Tok("ws", " ")
Marker(name) == Tok("marker", name)
\* the placeholder $index
ArgTok(index) == [k |-> "arg", s |-> "$", n |-> index]

\* template.trim() === ""
IsBlankTemplate(template) == \A i \in DOMAIN template : template[i].k = "ws"

RECURSIVE ReplaceMarkers(_, _, _, _, _, _)
\* placeholders numbered from 0
ReplaceMarkers_ZeroBased(template, i, params, schema, text, args) ==
    IF i > Len(template) THEN Ok([text |-> text, args |-> args])
    ELSE IF template[i].k # "marker"
         THEN ReplaceMarkers(template, i + 1, params, schema, Append(text, template[i]), args)
    ELSE LET paramName == template[i].s
         IN  IF paramName \notin DOMAIN params
             THEN Fail("Parâmetro não foi informado para a query", paramName)
             ELSE ReplaceMarkers(template, i + 1, params, schema,
                      Append(text, ArgTok(Len(args))),
                      Append(args, [paramName |-> paramName, value |-> params[paramName]]))

\* a string value written into the text in place of its placeholder
ReplaceMarkers_Inline(template, i, params, schema, text, args) ==
    IF i > Len(template) THEN Ok([text |-> text, args |-> args])
    ELSE IF template[i].k # "marker"
         THEN ReplaceMarkers(template, i + 1, params, schema, Append(text, template[i]), args)
    ELSE LET paramName == template[i].s
         IN  IF paramName \notin DOMAIN params
             THEN Fail("Parâmetro não foi informado para a query", paramName)
             ELSE ReplaceMarkers(template, i + 1, params, schema,
                      Append(text, IF params[paramName].t = "str"
                                   THEN Sql(params[paramName].v)
                                   ELSE ArgTok(Len(args) + 1)),
                      Append(args, [paramName |-> paramName, value |-> params[paramName]]))

\* a marker without a parameter is bound to undefined instead of rejected
ReplaceMarkers_BindsMissing(template, i, params, schema, text, args) ==
    IF i > Len(template) THEN Ok([text |-> text, args |-> args])
    ELSE IF template[i].k # "marker"
         THEN ReplaceMarkers(template, i + 1, params, schema, Append(text, template[i]), args)
    ELSE LET paramName == template[i].s
         IN  ReplaceMarkers(template, i + 1, params, schema,
                  Append(text, ArgTok(Len(args) + 1)),
                  Append(args, [paramName |-> paramName, value |-> Own(params, paramName)]))

\* template.replace(placeholderRegex, ...): text, args and placeholderMeta so far
ReplaceMarkers(template, i, params, schema, text, args) ==
    IF i > Len(template) THEN Ok([text |-> text, args |-> args])
    ELSE IF template[i].k # "marker"
         THEN ReplaceMarkers(template, i + 1, params, schema, Append(text, template[i]), args)
    ELSE LET paramName == template[i].s
         IN  IF paramName \notin DOMAIN params
             THEN Fail("Parâmetro não foi informado para a query", paramName)
             ELSE ReplaceMarkers(template, i + 1, params, schema,
                      Append(text, ArgTok(Len(args) + 1)),
                      Append(args, [paramName |-> paramName, value |-> params[paramName]]))

\* schemaEntry?.type === "array" || Array.isArray(params[paramName])
IsArrayParam(arg, schema) ==
    \/ \E i \in DOMAIN schema : schema[i][1] = arg.paramName /\ schema[i][2].type = "array"
    \/ arg.value.t = "arr"

RECURSIVE SkipWs(_, _)
\* the first position from i on that holds no white space
SkipWs(text, i) ==
    IF i <= Len(text) /\ text[i].k = "ws" THEN SkipWs(text, i + 1) ELSE i

\* keyword \s* ( \s* $index (\s* ::cast)? \s* ) starting at position i:
\* the positions of the placeholder and of the closing parenthesis, or close = 0
MatchAt(text, i, keyword, index) ==
    LET open == SkipWs(text, i + 1)
        arg == SkipWs(text, open + 1)
        afterArg == SkipWs(text, arg + 1)
        hasCast == afterArg <= Len(text) /\ text[afterArg].k = "cast"
        close == IF hasCast THEN SkipWs(text, afterArg + 1) ELSE afterArg
        matches == /\ text[i].k = keyword
                   /\ open <= Len(text) /\ text[open].k = "open"
                   /\ arg <= Len(text) /\ text[arg] = ArgTok(index)
                   /\ close <= Len(text) /\ text[close].k = "close"
    IN  [close |-> IF matches THEN close ELSE 0, arg |-> arg,
         castEnd |-> IF hasCast THEN afterArg ELSE arg]

RECURSIVE RewriteIn(_, _, _, _, _, _)
\* the operator written in front of the match, the match kept
RewriteIn_KeepsMatch(text, i, keyword, index, operator, out) ==
    IF i > Len(text) THEN out
    ELSE LET m == MatchAt(text, i, keyword, index)
         IN  IF m.close = 0
             THEN RewriteIn(text, i + 1, keyword, index, operator, Append(out, text[i]))
             ELSE RewriteIn(text, m.close + 1, keyword, index, operator,
                      out \o <<Sql(operator)>> \o SubSeq(text, i, m.close))

\* text.replace(pattern, replacement) for one keyword and one placeholder
RewriteIn(text, i, keyword, index, operator, out) ==
    IF i > Len(text) THEN out
    ELSE LET m == MatchAt(text, i, keyword, index)
         IN  IF m.close = 0
             THEN RewriteIn(text, i + 1, keyword, index, operator, Append(out, text[i]))
             ELSE RewriteIn(text, m.close + 1, keyword, index, operator,
                      out \o <<Sql(operator)>> \o SubSeq(text, m.arg, m.castEnd)
                          \o <<Tok("close", ")")>>)

RECURSIVE RewriteArrays(_, _, _, _)
\* the loop without its NOT IN pass
RewriteArrays_InOnly(text, args, schema, index) ==
    IF index > Len(args) THEN text
    ELSE IF ~IsArrayParam(args[index], schema)
         THEN RewriteArrays(text, args, schema, index + 1)
    ELSE RewriteArrays(RewriteIn(text, 1, "in", index, "= ANY(", <<>>), args, schema,
                       index + 1)

\* the loop over placeholderMeta
RewriteArrays(text, args, schema, index) ==
    IF index > Len(args) THEN text
    ELSE IF ~IsArrayParam(args[index], schema)
         THEN RewriteArrays(text, args, schema, index + 1)
    ELSE LET notIn == RewriteIn(text, 1, "notin", index, "<> ALL(", <<>>)
             in == RewriteIn(notIn, 1, "in", index, "= ANY(", <<>>)
         IN  RewriteArrays(in, args, schema, index + 1)

\* the array rewriting and the args of a template whose markers are replaced
FinishQuery(replaced, schema) ==
    IF ~replaced.ok THEN replaced
    ELSE Ok([text |-> RewriteArrays(replaced.v.text, replaced.v.args, schema, 1),
             args |-> [i \in DOMAIN replaced.v.args |-> replaced.v.args[i].value]])

buildParameterizedQuery(template, params, schema) ==
    FinishQuery(ReplaceMarkers(template, 1, params, schema, <<>>, <<>>), schema)

(***************************************************************************)
(* fetchUserData: roles, tenant metadata and the per-row step.             *)
(***************************************************************************)
\* role.trim() for the role strings of the model
TrimRole == (" admin " :> "admin") @@ (" " :> "") @@ ("" :> "")
\* the role lists of allowed_roles given as one string
RolesOfString == ("{admin}" :> <<"admin">>) @@ ("admin,client" :> <<"admin", "client">>)

normalizeAllowedRoles(value) ==
    CASE IsNullish(value) -> <<>>
      [] value.t = "arr" ->
            SelectSeq([i \in DOMAIN value.v |->
                          IF StringOf(value.v[i]) \in DOMAIN TrimRole
                          THEN TrimRole[StringOf(value.v[i])] ELSE StringOf(value.v[i])],
                      LAMBDA role : role # "")
      [] value.t = "str" /\ value.v \notin BlankStrings ->
            IF value.v \in DOMAIN RolesOfString THEN RolesOfString[value.v] ELSE <<value.v>>
      [] OTHER -> <<>>

\* fetchUserData's extractUserRoles
extractUserRoles(user) ==
    {"user", "authenticated"} \cup ({user.app_role, user.user_role} \ {"none"})
                              \cup user.app_roles \cup user.user_roles

\* a metadata row as normalizeGraphRecord / normalizeTableRecord return it
Row(id, slug, template) ==
    [id |-> id, slug |-> slug, query_template |-> template, param_schema |-> <<>>,
     default_params |-> NoParams, allowed_roles |-> JNull, is_active |-> TRUE]

\* a statement the tenant database rejects
BadSql == Sql("SELECT * FROM missing_relation")
PlainSql == Sql("SELECT count(*) FROM clientes")

\* rows of graficos_dashboard, in id order
ChartCatalog ==
    << Row(1, "empty", <<Ws>>),
       [Row(2, "adminonly", <<PlainSql>>) EXCEPT !.allowed_roles = Arr(<<Str("admin")>>)],
       [Row(3, "needs", <<PlainSql, Sql("WHERE ref ="), Ws, Marker("ref")>>)
           EXCEPT !.param_schema = << <<"ref", [Entry("string") EXCEPT !.required = TRUE]>> >>],
       Row(4, "ghost", <<PlainSql, Sql("WHERE g ="), Marker("ghost")>>),
       Row(5, "broken", <<BadSql>>),
       [Row(6, "old", <<PlainSql>>) EXCEPT !.is_active = FALSE],
       [Row(7, "sales", <<PlainSql, Sql("WHERE day >="), Marker("start")>>)
           EXCEPT !.param_schema = << <<"start", Entry("date")>> >>,
                  !.allowed_roles = Arr(<<Str("user"), Str("admin")>>)],
       [Row(8, "hidden", <<Ws>>) EXCEPT !.allowed_roles = Arr(<<Str("admin")>>)] >>

\* rows of dashboard_tables, in id order
TableCatalog ==
    << [Row(1, "secret", <<PlainSql>>) EXCEPT !.allowed_roles = Str("{admin}")],
       Row(2, "tbroken", <<BadSql>>),
       [Row(3, "orders", <<PlainSql, Sql("LIMIT"), Marker("n")>>)
           EXCEPT !.param_schema = << <<"n", [Entry("number") EXCEPT !.maximum = Num(5)]>> >>,
                  !.allowed_roles = Arr(<<Str("user")>>)] >>

ChartSlugs == {ChartCatalog[i].slug : i \in DOMAIN ChartCatalog}
TableSlugs == {TableCatalog[i].slug : i \in DOMAIN TableCatalog}

NoSql == [text |-> <<>>, args |-> <<>>]
Err(msg) == [msg |-> msg, name |-> ""]

\* client.queryObject(sql) throws
QueryFails(sql) == BadSql \in Range(sql.text)

\* what one iteration of a loop over metadata rows records for its row
RowError(error) ==
    [kind |-> "error", error |-> error, params |-> NoParams, sql |-> NoSql, executed |-> FALSE]

\* client.queryObject(sql, args) of the compiled statement
RunQuery(params, sql) ==
    IF ~sql.ok THEN RowError(sql.error)
    ELSE IF QueryFails(sql.v)
         THEN [RowError(Err("relation does not exist")) EXCEPT !.sql = sql.v, !.executed = TRUE]
    ELSE [kind |-> "rows", error |-> NoError, params |-> params, sql |-> sql.v,
          executed |-> TRUE]

\* buildParameterizedQuery of the resolved parameters, then the execution
CompileAndRun(row, resolved) ==
    IF ~resolved.ok THEN RowError(resolved.error)
    ELSE RunQuery(resolved.v,
                  buildParameterizedQuery(row.query_template, resolved.v, row.param_schema))

\* allowedRoles.length > 0 && !allowedRoles.some((role) => userRoles.has(role))
RoleDenied(allowedRoles, userRoles) ==
    Len(allowedRoles) > 0 /\ ~(\E i \in DOMAIN allowedRoles : allowedRoles[i] \in userRoles)

\* an iteration that skips the role check
RowOutcome_NoGate(row, provided, userRoles, denied) ==
    IF IsBlankTemplate(row.query_template) THEN RowError(Err("Query template vazio."))
    ELSE CompileAndRun(row, resolveParams(row.param_schema, row.default_params, provided))

\* one iteration of the loop over metadata rows, up to and including the execution
RowOutcome(row, provided, userRoles, denied) ==
    IF IsBlankTemplate(row.query_template) THEN RowError(Err("Query template vazio."))
    ELSE IF RoleDenied(normalizeAllowedRoles(row.allowed_roles), userRoles)
         THEN RowError(Err(denied))
    ELSE CompileAndRun(row, resolveParams(row.param_schema, row.default_params, provided))

\* Map.get(slug) of providedParamsMap: the params of the last entry with the slug
ProvidedFor(entries, slug) ==
    LET at == {i \in DOMAIN entries : entries[i].slug = slug}
    IN  IF at = {} THEN NoParams
        ELSE entries[CHOOSE i \in at : \A j \in at : j <= i].params

Put(map, key, value) == [k \in DOMAIN map \cup {key} |-> IF k = key THEN value ELSE map[k]]

DebugEntry(row, outcome) ==
    [slug |-> row.slug, params |-> outcome.params, query |-> outcome.sql.text,
     args |-> outcome.sql.args]

\* the statement an iteration ran on the tenant database, if any
Ran(log, kind, row, outcome) ==
    IF outcome.executed
    THEN Append(log, [kind |-> kind, id |-> row.id, text |-> outcome.sql.text,
                      args |-> outcome.sql.args])
    ELSE log

\* a chart iteration that gives up the remaining rows once a row fails
RecordChart_Abort(h, row, outcome) ==
    IF outcome.kind = "error"
    THEN [h EXCEPT !.returnedSlugs = @ \cup {row.slug}, !.queue = <<>>,
                   !.queries = Ran(@, "chart", row, outcome),
                   !.errors = Put(@, row.slug, outcome.error)]
    ELSE [h EXCEPT !.returnedSlugs = @ \cup {row.slug}, !.queue = Tail(@),
                   !.queries = Ran(@, "chart", row, outcome),
                   !.datasets = @ \cup {row.id},
                   !.debug = Put(@, row.id, DebugEntry(row, outcome)),
                   !.graphics = Append(@, row.id)]

\* lines 827-887: what a chart iteration leaves in the handler's collections
RecordChart(h, row, outcome) ==
    IF outcome.kind = "error"
    THEN [h EXCEPT !.returnedSlugs = @ \cup {row.slug}, !.queue = Tail(@),
                   !.queries = Ran(@, "chart", row, outcome),
                   !.errors = Put(@, row.slug, outcome.error)]
    ELSE [h EXCEPT !.returnedSlugs = @ \cup {row.slug}, !.queue = Tail(@),
                   !.queries = Ran(@, "chart", row, outcome),
                   !.datasets = @ \cup {row.id},
                   !.debug = Put(@, row.id, DebugEntry(row, outcome)),
                   !.graphics = Append(@, row.id)]

\* lines 826-888: one iteration of the loop over resultGraphics.rows
ChartStep(h, row) ==
    RecordChart(h, row,
        RowOutcome(row, ProvidedFor(h.requestedGraphs, row.slug), h.userRoles,
                   "Usuário não possui permissão para este gráfico."))

\* lines 1065-1127: what a table iteration leaves in the handler's collections
RecordTable(h, row, outcome) ==
    IF outcome.kind = "error"
    THEN [h EXCEPT !.tableReturnedSlugs = @ \cup {row.slug}, !.queue = Tail(@),
                   !.queries = Ran(@, "table", row, outcome),
                   !.tableErrors = Put(@, row.slug, outcome.error)]
    ELSE [h EXCEPT !.tableReturnedSlugs = @ \cup {row.slug}, !.queue = Tail(@),
                   !.queries = Ran(@, "table", row, outcome),
                   !.tableRows = @ \cup {row.id},
                   !.tableDebug = Put(@, row.id, DebugEntry(row, outcome)),
                   !.tables = Append(@, row.id)]

\* lines 1064-1128: one iteration of the loop over tableResults.rows
TableStep(h, row) ==
    RecordTable(h, row,
        RowOutcome(row, ProvidedFor(h.requestedTables, row.slug), h.userRoles,
                   "Usuário não possui permissão para esta tabela."))

(***************************************************************************)
(* http.ts: the rate limiter.  Time is in milliseconds.                    *)
(***************************************************************************)
\* largest number of applyRateLimit calls in a behaviour
MaxCalls == 3
\* Date.now() stops advancing here
MaxTime == 2000
\* the steps by which Date.now() advances between calls
TickMs == {250, 1000}

\* the options of the call sites, windows and maxima scaled down
RateOptions ==
    {[identifier |-> "registerLoginEvent", windowMs |-> 1000, max |-> 2],
     [identifier |-> "toggleCustomerPaused", windowMs |-> 1500, max |-> 1]}

\* what keyGenerator / getClientIp return
KeyParts == {"ip1", " ip1 ", ""}
\* keyPart.trim()
TrimKey == ("ip1" :> "ip1") @@ (" ip1 " :> "ip1") @@ ("" :> "")

\* `${identifier}:${finalKey}`
BucketKey(identifier, keyPart) ==
    identifier \o ":" \o (IF TrimKey[keyPart] = "" THEN "unknown" ELSE TrimKey[keyPart])

\* Math.ceil(ms / 1000)
CeilSeconds(ms) == -((-ms) \div 1000)
\* Math.floor(ms / 1000)
FloorSeconds(ms) == ms \div 1000
Max2(a, b) == IF a >= b THEN a ELSE b

\* applyRateLimit returned null
Admitted == [status |-> 0, retryAfterSeconds |-> 0, retryAfter |-> ""]
\* jsonResponse({ error, retryAfterSeconds }, { status: 429, headers: { "Retry-After" } })
TooMany(retryAfterSeconds) ==
    [status |-> 429, retryAfterSeconds |-> retryAfterSeconds,
     retryAfter |-> ToString(retryAfterSeconds)]

SetBucket(buckets, key, bucket) ==
    [k \in DOMAIN buckets \cup {key} |-> IF k = key THEN bucket ELSE buckets[k]]

\* a limiter that rounds the waiting time down
applyRateLimit_Floor(buckets, bucketKey, options, now) ==
    IF bucketKey \notin DOMAIN buckets \/ buckets[bucketKey].resetAt <= now
    THEN [buckets |-> SetBucket(buckets, bucketKey,
                                [count |-> 1, resetAt |-> now + options.windowMs]),
          response |-> Admitted]
    ELSE IF buckets[bucketKey].count >= options.max
    THEN [buckets |-> buckets,
          response |-> TooMany(Max2(1, FloorSeconds(buckets[bucketKey].resetAt - now)))]
    ELSE [buckets |-> SetBucket(buckets, bucketKey,
                                [buckets[bucketKey] EXCEPT !.count = @ + 1]),
          response |-> Admitted]

\* a limiter that admits one call more than max
applyRateLimit_OneMore(buckets, bucketKey, options, now) ==
    IF bucketKey \notin DOMAIN buckets \/ buckets[bucketKey].resetAt <= now
    THEN [buckets |-> SetBucket(buckets, bucketKey,
                                [count |-> 1, resetAt |-> now + options.windowMs]),
          response |-> Admitted]
    ELSE IF buckets[bucketKey].count > options.max
    THEN [buckets |-> buckets,
          response |-> TooMany(Max2(1, CeilSeconds(buckets[bucketKey].resetAt - now)))]
    ELSE [buckets |-> SetBucket(buckets, bucketKey,
                                [buckets[bucketKey] EXCEPT !.count = @ + 1]),
          response |-> Admitted]

\* a limiter whose rejected calls start the window again
applyRateLimit_Extends(buckets, bucketKey, options, now) ==
    IF bucketKey \notin DOMAIN buckets \/ buckets[bucketKey].resetAt <= now
    THEN [buckets |-> SetBucket(buckets, bucketKey,
                                [count |-> 1, resetAt |-> now + options.windowMs]),
          response |-> Admitted]
    ELSE IF buckets[bucketKey].count >= options.max
    THEN [buckets |-> SetBucket(buckets, bucketKey,
                                [buckets[bucketKey] EXCEPT !.resetAt = now + options.windowMs]),
          response |-> TooMany(Max2(1, CeilSeconds(buckets[bucketKey].resetAt - now)))]
    ELSE [buckets |-> SetBucket(buckets, bucketKey,
                                [buckets[bucketKey] EXCEPT !.count = @ + 1]),
          response |-> Admitted]

\* http.ts lines 104-134, from the bucket key on: the new bucket map and the response
applyRateLimit(buckets, bucketKey, options, now) ==
    IF bucketKey \notin DOMAIN buckets \/ buckets[bucketKey].resetAt <= now
    THEN [buckets |-> SetBucket(buckets, bucketKey,
                                [count |-> 1, resetAt |-> now + options.windowMs]),
          response |-> Admitted]
    ELSE IF buckets[bucketKey].count >= options.max
    THEN [buckets |-> buckets,
          response |-> TooMany(Max2(1, CeilSeconds(buckets[bucketKey].resetAt - now)))]
    ELSE [buckets |-> SetBucket(buckets, bucketKey,
                                [buckets[bucketKey] EXCEPT !.count = @ + 1]),
          response |-> Admitted]

\* the limiter of a freshly started isolate
RateQuiet ==
    /\ rateLimitBuckets = <<>>
    /\ wallClock = 0
    /\ rlCalls = <<>>

RegQuiet == ruCalls = <<>>

\* number of requests that borrow a tenant connection in one behaviour of SpecConn
MaxConnReqs == 2
ConnIds == 1..MaxConnReqs

IdleConn ==
    [handler |-> "none", pc |-> "idle", step |-> 0, acquired |-> 0, released |-> 0,
     pending |-> 0, via |-> "none", queryError |-> FALSE, status |-> 0]

ConnQuiet == tconn = [c \in ConnIds |-> IdleConn]

IdleCq ==
    [pc |-> "idle", template |-> <<>>, schema |-> <<>>, provided |-> NoParams,
     other |-> NoParams, params |-> Ok(NoParams), otherParams |-> Ok(NoParams),
     replaced |-> Ok([text |-> <<>>, args |-> <<>>]),
     compiled |-> Ok([text |-> <<>>, args |-> <<>>]),
     otherCompiled |-> Ok([text |-> <<>>, args |-> <<>>]), again |-> <<>>]

CompQuiet == cq = IdleCq

IdleRp ==
    [pc |-> "idle", name |-> "", entry |-> Entry("string"), defaults |-> NoParams,
     provided |-> NoParams, result |-> Ok(NoParams)]

ResQuiet == rp = IdleRp

IdlePa == [pc |-> "idle", value |-> Undef, result |-> <<>>]
ParseQuiet == pa = IdlePa

\* number of requests that pass through a handler's preamble in one behaviour
MaxGateReqs == 2
GwIds == 1..MaxGateReqs

\* a request not yet received.  effects lists the awaited calls made for the request,
\* ran the tenant coordinates each of its queries ran on
IdleGw ==
    [pc |-> "idle", endpoint |-> "none", method |-> "POST", bearer |-> "none",
     deviceId |-> "none", body |-> "none", principal |-> "none", coords |-> "none",
     effects |-> <<>>, ran |-> <<>>, status |-> 0]

GateQuiet == gw = [g \in GwIds |-> IdleGw]

RestQuiet ==
    /\ RateQuiet /\ RegQuiet /\ ConnQuiet /\ CompQuiet /\ ResQuiet /\ ParseQuiet /\ GateQuiet

\* the handler of fetchUserData before a request arrives
IdleFud ==
    [pc |-> "idle", bearer |-> "none", status |-> 0,
     requestedGraphs |-> <<>>, requestedTables |-> <<>>, userRoles |-> {},
     queue |-> <<>>, chartMeta |-> <<>>, tableMeta |-> <<>>,
     chartLoop |-> FALSE, tableLoop |-> FALSE,
     datasets |-> {}, debug |-> <<>>, errors |-> <<>>, graphics |-> <<>>,
     returnedSlugs |-> {},
     tableRows |-> {}, tableDebug |-> <<>>, tableErrors |-> <<>>, tables |-> <<>>,
     tableReturnedSlugs |-> {}, queries |-> <<>>]

BatchQuiet ==
    /\ fud = IdleFud
    /\ conn = "idle"

(***************************************************************************)
(* Admin endpoints: manageTable, manageGraph, registerUser, listCompanies. *)
(* SpecAdmin runs them concurrently against a fixed device store.          *)
(***************************************************************************)
\* number of admin requests handled in one behaviour of SpecAdmin
MaxAdminReqs == 2
AdmIds == 1..MaxAdminReqs
Slugs == {"sales", "stock"}

\* a user without role metadata; "none" stands for an undefined field
NoMeta == [app_role |-> "none", user_role |-> "none", app_roles |-> {}, user_roles |-> {}]

MetaOptions ==
    {NoMeta,
     [NoMeta EXCEPT !.app_role = "admin"],
     [NoMeta EXCEPT !.user_role = "admin"],
     [NoMeta EXCEPT !.app_roles = {"admin"}],
     [NoMeta EXCEPT !.user_role = "client", !.app_role = "admin"]}

\* http.ts extractRoles: "authenticated" plus the four role sources
extractRoles(user) ==
    {"authenticated"} \cup ({user.app_role, user.user_role} \ {"none"})
                      \cup user.app_roles \cup user.user_roles

\* http.ts requireAdminUser: "ok", or the kind of error thrown
requireAdminUser(bearer) ==
    IF bearer \notin Users THEN "unauthenticated"
    ELSE IF "admin" \notin extractRoles(metadata[bearer]) THEN "denied"
    ELSE "ok"

\* manageGraph's own requireAdminUser: the same role sources
manageGraph_requireAdminUser(bearer) ==
    IF bearer \notin Users THEN "unauthenticated"
    ELSE LET u == metadata[bearer]
             roles == {"authenticated"} \cup ({u.app_role, u.user_role} \ {"none"})
                                        \cup u.app_roles \cup u.user_roles
         IN  IF "admin" \notin roles THEN "denied" ELSE "ok"

\* registerUser: role = user_metadata.role ?? app_metadata.role
registerUser_role(user) ==
    IF user.user_role # "none" THEN user.user_role ELSE user.app_role

IdleAdm ==
    [endpoint |-> "none", pc |-> "idle", bearer |-> "none", deviceId |-> "none",
     payload |-> "ok", company |-> "c1", slug |-> "sales", checks |-> <<>>,
     status |-> 0, newUser |-> "none"]

AdmQuiet ==
    /\ adm = [a \in AdmIds |-> IdleAdm]
    /\ admStarted = 0
    /\ metadata = [u \in Users |-> NoMeta]
    /\ graficos = [s \in Slugs |-> 0]
    /\ dashboard_tables = [s \in Slugs |-> 0]
    /\ authUsers = {}
    /\ db_info = {"c1"}
    /\ adminWork = {}

(***************************************************************************)
(* SpecDevice                                                              *)
(***************************************************************************)
\* The store is persistent: a behaviour starts from an empty table or from a table
\* in which an earlier registerLoginEvent left one pending device (token 1, instant 1).
PendingRecord ==
    [status |-> "pending", approval_token |-> 1, confirmed_at |-> Null,
     last_seen_at |-> 1, device_name |-> "A"]

\* the same record after confirmDevice consumed token 1 at instant 2
ApprovedRecord ==
    [status |-> "approved", approval_token |-> Null, confirmed_at |-> 2,
     last_seen_at |-> 2, device_name |-> "A"]

InitialStores ==
    {[k \in Keys |-> NoRecord],
     [k \in Keys |-> IF k = <<"u1", "d1">> THEN PendingRecord ELSE NoRecord],
     [k \in Keys |-> IF k = <<"u1", "d1">> THEN ApprovedRecord ELSE NoRecord]}

InitDevice ==
    /\ devices \in InitialStores
    /\ loginEvents = {}
    /\ emails = {}
    /\ clientes = {}
    /\ clock = devices[<<"u1", "d1">>].last_seen_at
    /\ nextToken = IF devices[<<"u1", "d1">>].status = "absent" THEN 1 ELSE 2
    /\ started = 0
    /\ req = [r \in ReqIds |-> IdleReq]
    /\ AdmQuiet
    /\ BatchQuiet
    /\ RestQuiet

NextDevice ==
    \E r \in ReqIds :
        \/ RLE_Begin(r) \/ RLE_RecordEvent(r) \/ RLE_Read(r) \/ RLE_Upsert(r)
        \/ RLE_MailNew(r) \/ RLE_Mail(r) \/ RLE_Update(r)
        \/ CDS_Begin(r) \/ CDS_Read(r) \/ CDS_Update(r) \/ CDS_Mail(r)
        \/ CFM_Lookup(r) \/ CFM_Update(r) \/ CFM_RecordEvent(r) \/ CFM_Mail(r)
        \/ TCP_Begin(r) \/ TCP_Device(r) \/ TCP_Work(r)

SpecDevice == InitDevice /\ [][NextDevice]_vars

(***************************************************************************)
(* Admin endpoints: the handlers.                                          *)
(***************************************************************************)
AdmRespond(base, code) == [base EXCEPT !.pc = "done", !.status = code]

\* headers of an admin request
AdminHeaders == [bearer : {"none", "bad", "u1"}, deviceId : DeviceInputs]

\* bodies of manageTable / manageGraph: unparsable, with a slug normalizeSlug rejects,
\* for a company without db_info row, or well-formed
ManageBodies ==
    {[payload |-> p, company |-> "c1", slug |-> "sales"] : p \in {"badjson", "badslug"}}
    \cup {[payload |-> "ok", company |-> "c9", slug |-> "sales"]}
    \cup {[payload |-> "ok", company |-> "c1", slug |-> s] : s \in Slugs}

\* the request as received: the body is not read before authorization
StartAdm(a, endpoint, h) == [IdleAdm EXCEPT !.endpoint = endpoint, !.bearer = h.bearer]

\* await req.json()
WithBody(base, b) ==
    [base EXCEPT !.payload = b.payload, !.company = b.company, !.slug = b.slug]

DidWork(a, op) == adminWork' = adminWork \cup {[req |-> a, op |-> op]}

\* manageTable lines 120-174: Authorization header, requireAdminUser, body, validation
MT_Begin(a) ==
    /\ UNCHANGED notAdmVars
    /\ a = admStarted + 1
    /\ admStarted' = a
    /\ \E h \in AdminHeaders, b \in ManageBodies :
        LET base == StartAdm(a, "manageTable", h)
            auth == requireAdminUser(h.bearer)
        IN  adm' = [adm EXCEPT ![a] =
                IF h.bearer = "none" THEN AdmRespond(base, 401)
                ELSE IF auth = "unauthenticated" THEN AdmRespond(base, 401)
                ELSE IF auth = "denied" THEN AdmRespond(base, 403)
                ELSE LET ok == [WithBody(base, b) EXCEPT !.checks = <<"auth", "role">>]
                     IN  IF b.payload = "badjson" THEN AdmRespond(ok, 400)
                         ELSE IF b.payload = "badslug" THEN AdmRespond(ok, 500)
                         ELSE [ok EXCEPT !.pc = "connect"]]
    /\ UNCHANGED <<metadata, graficos, dashboard_tables, authUsers, db_info, adminWork>>

\* manageTable lines 176-182: getCompanyConnection, pool.connect
MT_Connect(a) ==
    /\ UNCHANGED notAdmVars
    /\ adm[a].endpoint = "manageTable" /\ adm[a].pc = "connect"
    /\ DidWork(a, "db_info")
    /\ adm' = [adm EXCEPT ![a] =
                IF adm[a].company \in db_info THEN [adm[a] EXCEPT !.pc = "exists"]
                ELSE AdmRespond(adm[a], 500)]
    /\ UNCHANGED <<admStarted, metadata, graficos, dashboard_tables, authUsers, db_info>>

\* manageTable lines 184-192: SELECT id FROM dashboard_tables WHERE slug = $1
MT_Exists(a) ==
    /\ UNCHANGED notAdmVars
    /\ adm[a].endpoint = "manageTable" /\ adm[a].pc = "exists"
    /\ DidWork(a, "select")
    /\ adm' = [adm EXCEPT ![a] =
                IF dashboard_tables[adm[a].slug] > 0 THEN AdmRespond(adm[a], 409)
                ELSE [adm[a] EXCEPT !.pc = "insert"]]
    /\ UNCHANGED <<admStarted, metadata, graficos, dashboard_tables, authUsers, db_info>>

\* manageTable lines 194-258: INSERT INTO dashboard_tables (slug is UNIQUE), 201
MT_Insert(a) ==
    /\ UNCHANGED notAdmVars
    /\ adm[a].endpoint = "manageTable" /\ adm[a].pc = "insert"
    /\ DidWork(a, "insert")
    /\ IF dashboard_tables[adm[a].slug] > 0
       THEN /\ adm' = [adm EXCEPT ![a] = AdmRespond(adm[a], 500)]
            /\ UNCHANGED dashboard_tables
       ELSE /\ adm' = [adm EXCEPT ![a] = AdmRespond(adm[a], 201)]
            /\ dashboard_tables' = [dashboard_tables EXCEPT ![adm[a].slug] = 1]
    /\ UNCHANGED <<admStarted, metadata, graficos, authUsers, db_info>>

\* manageGraph lines 174-228: Authorization header, requireAdminUser (its throw reaches
\* the outer catch), body, validation
MG_Begin(a) ==
    /\ UNCHANGED notAdmVars
    /\ a = admStarted + 1
    /\ admStarted' = a
    /\ \E h \in AdminHeaders, b \in ManageBodies :
        LET base == StartAdm(a, "manageGraph", h)
            auth == manageGraph_requireAdminUser(h.bearer)
        IN  adm' = [adm EXCEPT ![a] =
                IF h.bearer = "none" THEN AdmRespond(base, 401)
                ELSE IF auth # "ok" THEN AdmRespond(base, 500)
                ELSE LET ok == [WithBody(base, b) EXCEPT !.checks = <<"auth", "role">>]
                     IN  IF b.payload = "badjson" THEN AdmRespond(ok, 400)
                         ELSE IF b.payload = "badslug" THEN AdmRespond(ok, 500)
                         ELSE [ok EXCEPT !.pc = "connect"]]
    /\ UNCHANGED <<metadata, graficos, dashboard_tables, authUsers, db_info, adminWork>>

\* manageGraph lines 230-236: getCompanyConnection, pool.connect
MG_Connect(a) ==
    /\ UNCHANGED notAdmVars
    /\ adm[a].endpoint = "manageGraph" /\ adm[a].pc = "connect"
    /\ DidWork(a, "db_info")
    /\ adm' = [adm EXCEPT ![a] =
                IF adm[a].company \in db_info THEN [adm[a] EXCEPT !.pc = "exists"]
                ELSE AdmRespond(adm[a], 500)]
    /\ UNCHANGED <<admStarted, metadata, graficos, dashboard_tables, authUsers, db_info>>

\* manageGraph lines 238-251: SELECT id FROM graficos WHERE slug = $1
MG_Exists(a) ==
    /\ UNCHANGED notAdmVars
    /\ adm[a].endpoint = "manageGraph" /\ adm[a].pc = "exists"
    /\ DidWork(a, "select")
    /\ adm' = [adm EXCEPT ![a] =
                IF graficos[adm[a].slug] > 0 THEN AdmRespond(adm[a], 409)
                ELSE [adm[a] EXCEPT !.pc = "insert"]]
    /\ UNCHANGED <<admStarted, metadata, graficos, dashboard_tables, authUsers, db_info>>

\* manageGraph lines 253-317: INSERT INTO graficos, 201.  The schema of graficos is
\* not part of the sources: when a row with the slug has appeared meanwhile the
\* insert either adds a second row or fails on a unique index.
MG_Insert(a) ==
    /\ UNCHANGED notAdmVars
    /\ adm[a].endpoint = "manageGraph" /\ adm[a].pc = "insert"
    /\ DidWork(a, "insert")
    /\ \/ /\ adm' = [adm EXCEPT ![a] = AdmRespond(adm[a], 201)]
          /\ graficos' = [graficos EXCEPT ![adm[a].slug] = @ + 1]
       \/ /\ graficos[adm[a].slug] > 0
          /\ adm' = [adm EXCEPT ![a] = AdmRespond(adm[a], 500)]
          /\ UNCHANGED graficos
    /\ UNCHANGED <<admStarted, metadata, dashboard_tables, authUsers, db_info>>

\* ids given by auth.admin.createUser, one per request
NewIds == <<"n1", "n2", "n3", "n4">>

RegisterBodies == {"badjson", "missing", "ok"}

\* registerUser lines 21-113: Authorization header, auth.getUser, role, body, fields
RU_Begin(a) ==
    /\ UNCHANGED notAdmVars
    /\ a = admStarted + 1
    /\ admStarted' = a
    /\ \E h \in AdminHeaders, b \in RegisterBodies :
        LET base == [IdleAdm EXCEPT !.endpoint = "registerUser", !.bearer = h.bearer]
        IN  adm' = [adm EXCEPT ![a] =
                IF h.bearer = "none" THEN AdmRespond(base, 401)
                ELSE IF h.bearer \notin Users THEN AdmRespond(base, 401)
                ELSE IF registerUser_role(metadata[h.bearer]) # "admin"
                     THEN AdmRespond([base EXCEPT !.checks = <<"auth">>], 403)
                ELSE LET ok == [base EXCEPT !.checks = <<"auth", "role">>, !.payload = b]
                     IN  IF b \in {"badjson", "missing"} THEN AdmRespond(ok, 400)
                         ELSE [ok EXCEPT !.pc = "create"]]
    /\ UNCHANGED <<metadata, graficos, dashboard_tables, authUsers, db_info, adminWork>>

\* registerUser lines 114-133: auth.admin.createUser
RU_Create(a) ==
    /\ UNCHANGED notAdmVars
    /\ adm[a].endpoint = "registerUser" /\ adm[a].pc = "create"
    /\ DidWork(a, "createUser")
    /\ \/ /\ authUsers' = authUsers \cup {NewIds[a]}
          /\ adm' = [adm EXCEPT ![a] = [adm[a] EXCEPT !.pc = "insert", !.newUser = NewIds[a]]]
       \/ /\ adm' = [adm EXCEPT ![a] = AdmRespond(adm[a], 400)]
          /\ UNCHANGED authUsers
    /\ UNCHANGED <<admStarted, metadata, graficos, dashboard_tables, db_info>>

\* registerUser lines 135-150, 174-180: insert into db_info
RU_Insert(a) ==
    /\ UNCHANGED notAdmVars
    /\ adm[a].endpoint = "registerUser" /\ adm[a].pc = "insert"
    /\ DidWork(a, "insert")
    /\ \/ /\ db_info' = db_info \cup {adm[a].newUser}
          /\ adm' = [adm EXCEPT ![a] = AdmRespond(adm[a], 201)]
       \/ /\ adm' = [adm EXCEPT ![a] = [adm[a] EXCEPT !.pc = "rollback"]]
          /\ UNCHANGED db_info
    /\ UNCHANGED <<admStarted, metadata, graficos, dashboard_tables, authUsers>>

\* a rollback that answers 500 without deleting the auth user
RU_Rollback_NoDelete(a) ==
    /\ UNCHANGED notAdmVars
    /\ adm[a].endpoint = "registerUser" /\ adm[a].pc = "rollback"
    /\ DidWork(a, "deleteUser")
    /\ UNCHANGED authUsers
    /\ adm' = [adm EXCEPT ![a] = AdmRespond(adm[a], 500)]
    /\ UNCHANGED <<admStarted, metadata, graficos, dashboard_tables, db_info>>

\* registerUser lines 151-172: auth.admin.deleteUser, whose failure is caught and
\* logged ("cleanupError"), then 500
RU_Rollback(a) ==
    /\ UNCHANGED notAdmVars
    /\ adm[a].endpoint = "registerUser" /\ adm[a].pc = "rollback"
    /\ \/ /\ authUsers' = authUsers \ {adm[a].newUser}
          /\ DidWork(a, "deleteUser")
       \/ /\ UNCHANGED authUsers
          /\ adminWork' = adminWork \cup {[req |-> a, op |-> "deleteUser"],
                                          [req |-> a, op |-> "cleanupError"]}
    /\ adm' = [adm EXCEPT ![a] = AdmRespond(adm[a], 500)]
    /\ UNCHANGED <<admStarted, metadata, graficos, dashboard_tables, db_info>>

\* listCompanies (logging.ts lines 79-121): bearer token, requireAdminUser
LC_Begin(a) ==
    /\ UNCHANGED notAdmVars
    /\ a = admStarted + 1
    /\ admStarted' = a
    /\ \E h \in AdminHeaders :
        LET base == [IdleAdm EXCEPT !.endpoint = "listCompanies", !.bearer = h.bearer,
                                    !.deviceId = h.deviceId]
            auth == requireAdminUser(h.bearer)
        IN  adm' = [adm EXCEPT ![a] =
                IF h.bearer = "none" THEN AdmRespond(base, 401)
                ELSE IF auth = "unauthenticated" THEN AdmRespond(base, 401)
                ELSE IF auth = "denied" THEN AdmRespond(base, 403)
                ELSE [base EXCEPT !.checks = <<"auth", "role">>, !.pc = "device"]]
    /\ UNCHANGED <<metadata, graficos, dashboard_tables, authUsers, db_info, adminWork>>

\* listCompanies lines 123-129: await requireApprovedDevice
LC_Device(a) ==
    /\ UNCHANGED notAdmVars
    /\ adm[a].endpoint = "listCompanies" /\ adm[a].pc = "device"
    /\ adm' = [adm EXCEPT ![a] =
                IF requireApprovedDevice(adm[a].bearer, getClientDeviceId(adm[a].deviceId))
                THEN [adm[a] EXCEPT !.checks = Append(@, "device"), !.pc = "list"]
                ELSE AdmRespond(adm[a], 403)]
    /\ UNCHANGED <<admStarted, metadata, graficos, dashboard_tables, authUsers, db_info,
                   adminWork>>

\* listCompanies lines 131-154: select from db_info, 200 (500 when the select fails)
LC_List(a) ==
    /\ UNCHANGED notAdmVars
    /\ adm[a].endpoint = "listCompanies" /\ adm[a].pc = "list"
    /\ DidWork(a, "list")
    /\ \E code \in {200, 500} : adm' = [adm EXCEPT ![a] = AdmRespond(adm[a], code)]
    /\ UNCHANGED <<admStarted, metadata, graficos, dashboard_tables, authUsers, db_info>>

\* the device endpoints at rest
DevQuiet ==
    /\ loginEvents = {}
    /\ emails = {}
    /\ clientes = {}
    /\ clock = devices[<<"u1", "d1">>].last_seen_at
    /\ nextToken = IF devices[<<"u1", "d1">>].status = "absent" THEN 1 ELSE 2
    /\ started = 0
    /\ req = [r \in ReqIds |-> IdleReq]

InitAdmin ==
    /\ devices \in InitialStores
    /\ DevQuiet
    /\ adm = [a \in AdmIds |-> IdleAdm]
    /\ admStarted = 0
    /\ metadata \in {[u \in Users |-> IF u = "u1" THEN m ELSE NoMeta] : m \in MetaOptions}
    /\ graficos = [s \in Slugs |-> IF s = "sales" THEN 1 ELSE 0]
    /\ dashboard_tables = [s \in Slugs |-> IF s = "sales" THEN 1 ELSE 0]
    /\ authUsers = {}
    /\ db_info = {"c1"}
    /\ adminWork = {}
    /\ BatchQuiet
    /\ RestQuiet

NextAdmin ==
    \E a \in AdmIds :
        \/ MT_Begin(a) \/ MT_Connect(a) \/ MT_Exists(a) \/ MT_Insert(a)
        \/ MG_Begin(a) \/ MG_Connect(a) \/ MG_Exists(a) \/ MG_Insert(a)
        \/ RU_Begin(a) \/ RU_Create(a) \/ RU_Insert(a) \/ RU_Rollback(a)
        \/ LC_Begin(a) \/ LC_Device(a) \/ LC_List(a)

SpecAdmin == InitAdmin /\ [][NextAdmin]_vars

(***************************************************************************)
(* registerUser called again and again by one caller.                      *)
(***************************************************************************)
\* number of registerUser calls answered in one behaviour of SpecRegister
MaxRegisterCalls == 11
\* Date.now() stops advancing at this instant
MaxRegisterTime == 60000
RegisterTickMs == {30000}
\* the caller sends one call after the other: one request slot
RegisterSlots == {1}

\* registerUser: the response leaves the handler; the isolate serves the next call
RU_Return(a) ==
    /\ UNCHANGED <<devVars, batchVars, rateVars, connVars, compVars, resVars, parseVars,
                   gateVars>>
    /\ adm[a].endpoint = "registerUser" /\ adm[a].pc = "done"
    /\ a = admStarted
    /\ Len(ruCalls) < MaxRegisterCalls
    /\ ruCalls' = Append(ruCalls, [at |-> wallClock, limited |-> adm[a].status = 429])
    /\ adm' = [adm EXCEPT ![a] = IdleAdm]
    /\ admStarted' = a - 1
    /\ UNCHANGED <<metadata, graficos, dashboard_tables, authUsers, db_info, adminWork>>

\* time passes between two calls
RU_Tick ==
    /\ UNCHANGED notRateVars
    /\ admStarted = 0
    /\ \E dt \in RegisterTickMs :
          /\ wallClock + dt <= MaxRegisterTime
          /\ wallClock' = wallClock + dt
    /\ UNCHANGED <<rateLimitBuckets, rlCalls>>

InitRegister ==
    /\ devices = [k \in Keys |-> NoRecord]
    /\ DevQuiet
    /\ adm = [a \in AdmIds |-> IdleAdm]
    /\ admStarted = 0
    /\ metadata \in {[u \in Users |-> IF u = "u1" THEN m ELSE NoMeta] :
                        m \in {NoMeta, [NoMeta EXCEPT !.app_role = "admin"]}}
    /\ graficos = [s \in Slugs |-> 0]
    /\ dashboard_tables = [s \in Slugs |-> 0]
    /\ authUsers = {}
    /\ db_info = {"c1"}
    /\ adminWork = {}
    /\ BatchQuiet
    /\ RestQuiet

NextRegister ==
    \/ \E a \in RegisterSlots :
          \/ RU_Begin(a) \/ RU_Create(a) \/ RU_Insert(a) \/ RU_Rollback(a) \/ RU_Return(a)
    \/ RU_Tick

SpecRegister == InitRegister /\ [][NextRegister]_vars

(***************************************************************************)
(* fetchUserData: the handler (part_005 lines 670-1194).                   *)
(***************************************************************************)
\* largest number of entries in the graphs or tables list of a request
MaxBatch == 2

GraphEntries ==
    {[slug |-> s, params |-> NoParams] : s \in ChartSlugs \cup {"nosuch"}}
    \cup {[slug |-> "needs", params |-> ("ref" :> Str("a"))],
          [slug |-> "ghost", params |-> ("ghost" :> Str("x"))]}

TableEntries ==
    {[slug |-> s, params |-> NoParams] : s \in TableSlugs \cup {"clientes", "notable"}}
    \cup {[slug |-> "orders", params |-> ("n" :> Num(2000))]}

SeqsUpTo(S, n) == UNION {[1..k -> S] : k \in 0..n}

\* request bodies: a list of graphs or a list of tables, the other one left out
Requests ==
    {[graphs |-> g, tables |-> <<>>] : g \in SeqsUpTo(GraphEntries, MaxBatch)}
    \cup {[graphs |-> <<>>, tables |-> t] : t \in SeqsUpTo(TableEntries, MaxBatch)}

\* requestedGraphs.map((graph) => graph.slug)
SlugsOf(entries) == {entries[i].slug : i \in DOMAIN entries}

\* requestedTableSlugs.length === 0 || requestedTableSlugs.includes("clientes")
shouldIncludeBaseTable(h) ==
    h.requestedTables = <<>> \/ "clientes" \in SlugsOf(h.requestedTables)

\* requestedTableSlugs.filter((slug) => slug !== "clientes")
filteredTableSlugs(h) == SlugsOf(h.requestedTables) \ {"clientes"}

FudRespond(h, code) == [h EXCEPT !.pc = "done", !.status = code]

\* lines 670-786: Authorization header, auth.getUser, db_info, pool.connect, body
FUD_Begin ==
    /\ UNCHANGED notBatchVars
    /\ fud.pc = "idle"
    /\ \E bearer \in {"none", "bad"} \cup Users, body \in Requests :
        IF bearer \notin Users
        THEN /\ fud' = FudRespond([fud EXCEPT !.bearer = bearer], 401)
             /\ UNCHANGED conn
        ELSE IF bearer \notin db_info
        THEN /\ fud' = FudRespond([fud EXCEPT !.bearer = bearer], 404)
             /\ UNCHANGED conn
        ELSE /\ fud' = [fud EXCEPT !.bearer = bearer, !.pc = "chartMeta",
                                   !.requestedGraphs = body.graphs,
                                   !.requestedTables = body.tables,
                                   !.userRoles = extractUserRoles(metadata[bearer])]
             /\ conn' = "borrowed"

\* lines 788-824: SELECT ... FROM graficos_dashboard; a failure reaches the outer catch
FUD_ChartMeta ==
    /\ UNCHANGED notBatchVars
    /\ fud.pc = "chartMeta"
    /\ \/ LET requestedSlugs == SlugsOf(fud.requestedGraphs)
              rows == SelectSeq(ChartCatalog,
                          LAMBDA row : /\ row.is_active
                                       /\ (requestedSlugs = {} \/ row.slug \in requestedSlugs))
          IN  /\ fud' = [fud EXCEPT !.pc = "chart", !.queue = rows, !.chartMeta = rows,
                                    !.chartLoop = TRUE]
              /\ UNCHANGED conn
       \/ /\ fud' = FudRespond(fud, 500)
          /\ conn' = "released"

\* lines 826-888: one metadata row of the chart loop
FUD_Chart ==
    /\ UNCHANGED notBatchVars
    /\ fud.pc = "chart" /\ fud.queue # <<>>
    /\ fud' = ChartStep(fud, Head(fud.queue))
    /\ UNCHANGED conn

\* the message of the tenant database when the table clientes does not exist
NoClientesTable == Err("relation \"clientes\" does not exist")

\* lines 890-1023: the base table clientes; its query fails when the table does not
\* exist, and may fail for other reasons
FUD_BaseTable ==
    /\ UNCHANGED notBatchVars
    /\ fud.pc = "chart" /\ fud.queue = <<>>
    /\ IF shouldIncludeBaseTable(fud)
       THEN LET listed == [fud EXCEPT !.pc = "probe", !.tables = Append(@, 0),
                                      !.tableReturnedSlugs = @ \cup {"clientes"},
                                      !.queries = Append(@, [kind |-> "base", id |-> 0,
                                                             text |-> <<PlainSql>>,
                                                             args |-> <<>>])]
            IN  /\ \/ fud' = [listed EXCEPT
                                !.tableRows = @ \cup {0},
                                !.tableDebug = Put(@, 0,
                                    [slug |-> "clientes", params |-> NoParams,
                                     query |-> <<PlainSql>>, args |-> <<>>])]
                   \/ fud' = [listed EXCEPT
                                !.tableErrors = Put(@, "clientes", Err("query failed"))]
                   \/ fud' = [listed EXCEPT
                                !.tableErrors = Put(@, "clientes", NoClientesTable)]
       ELSE fud' = [fud EXCEPT !.pc = "probe"]
    /\ UNCHANGED conn

\* lines 1025-1036, 1132-1136: does dashboard_tables exist (a failed probe counts as no)
FUD_Probe ==
    /\ UNCHANGED notBatchVars
    /\ fud.pc = "probe"
    /\ \/ fud' = [fud EXCEPT !.pc = "tableMeta"]
       \/ fud' = [fud EXCEPT !.pc = "finish",
                    !.tableErrors =
                        [k \in DOMAIN @ \cup filteredTableSlugs(fud) |->
                            IF k \in filteredTableSlugs(fud)
                            THEN Err("Tabela personalizada indisponível: metadados não foram provisionados.")
                            ELSE @[k]]]
    /\ UNCHANGED conn

\* lines 1037-1063, 1129-1131: SELECT ... FROM dashboard_tables
FUD_TableMeta ==
    /\ UNCHANGED notBatchVars
    /\ fud.pc = "tableMeta"
    /\ \/ LET wanted == filteredTableSlugs(fud)
              rows == SelectSeq(TableCatalog,
                          LAMBDA row : /\ row.is_active
                                       /\ (wanted = {} \/ row.slug \in wanted))
          IN  fud' = [fud EXCEPT !.pc = "table", !.queue = rows, !.tableMeta = rows,
                                 !.tableLoop = TRUE]
       \/ fud' = [fud EXCEPT !.pc = "finish",
                    !.tableErrors = Put(@, "__metadata", Err("query failed"))]
    /\ UNCHANGED conn

\* lines 1064-1128: one metadata row of the table loop
FUD_Table ==
    /\ UNCHANGED notBatchVars
    /\ fud.pc = "table" /\ fud.queue # <<>>
    /\ fud' = TableStep(fud, Head(fud.queue))
    /\ UNCHANGED conn

\* a response without the not-found pass over the requested chart slugs
FUD_Finish_NoChartPass ==
    /\ UNCHANGED notBatchVars
    /\ fud.pc = "finish" \/ (fud.pc = "table" /\ fud.queue = <<>>)
    /\ LET missingTables ==
               {slug \in SlugsOf(fud.requestedTables) :
                   /\ ~(slug = "clientes" /\ shouldIncludeBaseTable(fud))
                   /\ slug \notin fud.tableReturnedSlugs}
       IN  fud' = [fud EXCEPT
                     !.pc = "done", !.status = 200,
                     !.tableErrors = [k \in DOMAIN @ \cup missingTables |->
                                         IF k \in missingTables
                                         THEN Err("Tabela não encontrada ou inativa.")
                                         ELSE @[k]]]
    /\ conn' = "released"

\* lines 1138-1179: the not-found passes, the response, client.release()
FUD_Finish ==
    /\ UNCHANGED notBatchVars
    /\ fud.pc = "finish" \/ (fud.pc = "table" /\ fud.queue = <<>>)
    /\ LET missingTables ==
               {slug \in SlugsOf(fud.requestedTables) :
                   /\ ~(slug = "clientes" /\ shouldIncludeBaseTable(fud))
                   /\ slug \notin fud.tableReturnedSlugs}
           missingGraphs == SlugsOf(fud.requestedGraphs) \ fud.returnedSlugs
       IN  fud' = [fud EXCEPT
                     !.pc = "done", !.status = 200,
                     !.tableErrors = [k \in DOMAIN @ \cup missingTables |->
                                         IF k \in missingTables
                                         THEN Err("Tabela não encontrada ou inativa.")
                                         ELSE @[k]],
                     !.errors = [k \in DOMAIN @ \cup missingGraphs |->
                                     IF k \in missingGraphs
                                     THEN Err("Gráfico não encontrado ou inativo.")
                                     ELSE @[k]]]
    /\ conn' = "released"

InitBatch ==
    /\ devices = [k \in Keys |-> NoRecord]
    /\ DevQuiet
    /\ adm = [a \in AdmIds |-> IdleAdm]
    /\ admStarted = 0
    /\ metadata \in {[u \in Users |-> IF u = "u1" THEN m ELSE NoMeta] : m \in MetaOptions}
    /\ graficos = [s \in Slugs |-> 0]
    /\ dashboard_tables = [s \in Slugs |-> 0]
    /\ authUsers = {}
    /\ db_info = {"u1"}
    /\ adminWork = {}
    /\ BatchQuiet
    /\ RestQuiet

NextBatch ==
    \/ FUD_Begin \/ FUD_ChartMeta \/ FUD_Chart \/ FUD_BaseTable
    \/ FUD_Probe \/ FUD_TableMeta \/ FUD_Table \/ FUD_Finish

SpecBatch == InitBatch /\ [][NextBatch]_vars

(***************************************************************************)
(* The rate limiter under calls from any handler and the passing of time.  *)
(***************************************************************************)
\* every part of the system other than the limiter at rest
CoreQuiet ==
    /\ devices = [k \in Keys |-> NoRecord]
    /\ DevQuiet
    /\ AdmQuiet
    /\ BatchQuiet

\* one call of applyRateLimit, as the first statement of a handler
RL_Call ==
    /\ UNCHANGED notRateVars
    /\ Len(rlCalls) < MaxCalls
    /\ \E options \in RateOptions, keyPart \in KeyParts :
          LET bucketKey == BucketKey(options.identifier, keyPart)
              result == applyRateLimit(rateLimitBuckets, bucketKey, options, wallClock)
          IN  /\ rateLimitBuckets' = result.buckets
              /\ rlCalls' = Append(rlCalls,
                    [bucket |-> bucketKey, at |-> wallClock, options |-> options,
                     response |-> result.response,
                     resetAt |-> IF bucketKey \in DOMAIN result.buckets
                                 THEN result.buckets[bucketKey].resetAt ELSE 0])
    /\ UNCHANGED wallClock

\* time passes
RL_Tick ==
    /\ UNCHANGED notRateVars
    /\ \E dt \in TickMs : /\ wallClock + dt <= MaxTime
                          /\ wallClock' = wallClock + dt
    /\ UNCHANGED <<rateLimitBuckets, rlCalls>>

InitRate == CoreQuiet /\ RestQuiet

NextRate == RL_Call \/ RL_Tick

SpecRate == InitRate /\ [][NextRate]_vars

(***************************************************************************)
(* Claims about the fetchUserData batch.                                   *)
(***************************************************************************)
\* the slug of the chart or table whose rows are stored under an id
ChartSlugOf(id) == ChartCatalog[CHOOSE i \in DOMAIN ChartCatalog : ChartCatalog[i].id = id].slug
TableSlugOf(id) ==
    IF id = 0 THEN "clientes"
    ELSE TableCatalog[CHOOSE i \in DOMAIN TableCatalog : TableCatalog[i].id = id].slug

Answered == fud.pc = "done" /\ fud.status = 200

\* C1: for a request that names chart slugs, and for one that names table slugs, the
\* slugs with rows and the slugs with errors are disjoint and their union is exactly
\* the set of requested slugs.
C1_FailureIsolation ==
    Answered =>
        /\ fud.requestedGraphs # <<>> =>
              LET withRows == {ChartSlugOf(id) : id \in fud.datasets}
              IN  /\ withRows \cap DOMAIN fud.errors = {}
                  /\ withRows \cup DOMAIN fud.errors = SlugsOf(fud.requestedGraphs)
        /\ fud.requestedTables # <<>> =>
              LET withRows == {TableSlugOf(id) : id \in fud.tableRows}
              IN  /\ withRows \cap DOMAIN fud.tableErrors = {}
                  /\ withRows \cup DOMAIN fud.tableErrors = SlugsOf(fud.requestedTables)

\* the request that names only the slug of a row, with the parameters the batch gave it
Alone(entries, row) == SelectSeq(entries, LAMBDA e : e.slug = row.slug)

\* C2: once the metadata query of a loop has answered, the response is 200 and every
\* row the query returned, whatever failed before it, has exactly the rows, the debug
\* entry or the error it gets from a request that names it alone.
C2_FailuresNeverAbort ==
    fud.pc = "done" =>
        /\ fud.chartLoop =>
              /\ fud.status = 200
              /\ \A i \in DOMAIN fud.chartMeta :
                    LET row == fud.chartMeta[i]
                        alone == ChartStep([IdleFud EXCEPT
                                               !.requestedGraphs = Alone(fud.requestedGraphs, row),
                                               !.userRoles = fud.userRoles,
                                               !.queue = <<row>>], row)
                    IN  /\ row.slug \in fud.returnedSlugs
                        /\ row.id \in fud.datasets <=> row.id \in alone.datasets
                        /\ row.id \in DOMAIN fud.debug <=> row.id \in DOMAIN alone.debug
                        /\ row.id \in DOMAIN fud.debug => fud.debug[row.id] = alone.debug[row.id]
                        /\ row.slug \in DOMAIN fud.errors <=> row.slug \in DOMAIN alone.errors
                        /\ row.slug \in DOMAIN fud.errors =>
                              fud.errors[row.slug] = alone.errors[row.slug]
        /\ fud.tableLoop =>
              /\ fud.status = 200
              /\ \A i \in DOMAIN fud.tableMeta :
                    LET row == fud.tableMeta[i]
                        alone == TableStep([IdleFud EXCEPT
                                               !.requestedTables = Alone(fud.requestedTables, row),
                                               !.userRoles = fud.userRoles,
                                               !.queue = <<row>>], row)
                    IN  /\ row.slug \in fud.tableReturnedSlugs
                        /\ row.id \in fud.tableRows <=> row.id \in alone.tableRows
                        /\ row.id \in DOMAIN fud.tableDebug <=> row.id \in DOMAIN alone.tableDebug
                        /\ row.id \in DOMAIN fud.tableDebug =>
                              fud.tableDebug[row.id] = alone.tableDebug[row.id]
                        /\ row.slug \in DOMAIN fud.tableErrors <=>
                              row.slug \in DOMAIN alone.tableErrors
                        /\ row.slug \in DOMAIN fud.tableErrors =>
                              fud.tableErrors[row.slug] = alone.tableErrors[row.slug]

\* a batch where rows of every failure kind precede rows that are served
C2_Witness ==
    /\ Answered
    /\ {"empty", "adminonly", "needs", "ghost", "broken"} \subseteq DOMAIN fud.errors
    /\ 7 \in fud.datasets
    /\ "tbroken" \in DOMAIN fud.tableErrors
    /\ 3 \in fud.tableRows

\* the row's allowed roles are nonempty and none of them is a role of the caller
Denied(row) == RoleDenied(normalizeAllowedRoles(row.allowed_roles), fud.userRoles)

NeverServed(row, kind, rowsOf, debugOf) ==
    /\ row.id \notin rowsOf
    /\ row.id \notin DOMAIN debugOf
    /\ \A i \in DOMAIN fud.queries : ~(fud.queries[i].kind = kind /\ fud.queries[i].id = row.id)

\* C3 as stated: a row whose allowed roles exclude the caller is never compiled or
\* executed, has no debug or rows entry, and once the loop has passed it its slug has
\* the permission error.
C3_RoleGate_PermissionError ==
    fud.pc # "idle" =>
        /\ \A i \in DOMAIN ChartCatalog :
              LET row == ChartCatalog[i]
              IN  Denied(row) =>
                    /\ NeverServed(row, "chart", fud.datasets, fud.debug)
                    /\ (row.slug \in fud.returnedSlugs /\ fud.pc = "done") =>
                          /\ row.slug \in DOMAIN fud.errors
                          /\ fud.errors[row.slug] =
                                Err("Usuário não possui permissão para este gráfico.")
        /\ \A i \in DOMAIN TableCatalog :
              LET row == TableCatalog[i]
              IN  Denied(row) =>
                    /\ NeverServed(row, "table", fud.tableRows, fud.tableDebug)
                    /\ (row.slug \in fud.tableReturnedSlugs /\ fud.pc = "done") =>
                          /\ row.slug \in DOMAIN fud.tableErrors
                          /\ fud.tableErrors[row.slug] =
                                Err("Usuário não possui permissão para esta tabela.")

\* C3: a row whose allowed roles exclude the caller is never compiled or executed and
\* has no debug or rows entry; once the loop has passed it its slug has an error entry,
\* the permission error unless the row's template is blank, then "Query template vazio.".
C3_RoleGate ==
    fud.pc # "idle" =>
        /\ \A i \in DOMAIN ChartCatalog :
              LET row == ChartCatalog[i]
              IN  Denied(row) =>
                    /\ NeverServed(row, "chart", fud.datasets, fud.debug)
                    /\ (row.slug \in fud.returnedSlugs /\ fud.pc = "done") =>
                          /\ row.slug \in DOMAIN fud.errors
                          /\ fud.errors[row.slug] =
                                IF IsBlankTemplate(row.query_template)
                                THEN Err("Query template vazio.")
                                ELSE Err("Usuário não possui permissão para este gráfico.")
        /\ \A i \in DOMAIN TableCatalog :
              LET row == TableCatalog[i]
              IN  Denied(row) =>
                    /\ NeverServed(row, "table", fud.tableRows, fud.tableDebug)
                    /\ (row.slug \in fud.tableReturnedSlugs /\ fud.pc = "done") =>
                          /\ row.slug \in DOMAIN fud.tableErrors
                          /\ fud.tableErrors[row.slug] =
                                IF IsBlankTemplate(row.query_template)
                                THEN Err("Query template vazio.")
                                ELSE Err("Usuário não possui permissão para esta tabela.")

\* a caller without the admin role asked for the admin-only chart, another one for the
\* admin-only table, and the loop has passed the row
C3_Witness ==
    /\ Answered
    /\ "admin" \notin fud.userRoles
    /\ \/ /\ "adminonly" \in SlugsOf(fud.requestedGraphs)
          /\ "adminonly" \in DOMAIN fud.errors
          /\ fud.errors["adminonly"] = Err("Usuário não possui permissão para este gráfico.")
          /\ "secret" \in DOMAIN fud.tableErrors
       \/ /\ "secret" \in SlugsOf(fud.requestedTables)
          /\ "secret" \in DOMAIN fud.tableErrors
          /\ fud.tableErrors["secret"] = Err("Usuário não possui permissão para esta tabela.")

(***************************************************************************)
(* Claims about the device-approval store (SpecDevice).                    *)
(***************************************************************************)
\* the approved predicate of section 4.4, written on the store itself
ApprovedInStore(u, d) ==
    /\ d \in DeviceIds
    /\ devices[<<u, d>>].status = "approved"
    /\ devices[<<u, d>>].confirmed_at # Null

\* C4: once a device record has become approved, every later requireApprovedDevice
\* call for that (principal, deviceId) succeeds
C4_DeviceGateMonotone ==
    [][\A u \in Users, d \in DeviceIds :
          requireApprovedDevice(u, d) => requireApprovedDevice(u, d)']_vars

ConfirmsOf(t) == {r \in ReqIds : req[r].kind = "confirmDevice" /\ req[r].token = t}

\* C5: approval tokens are single-use: of the confirmDevice requests carrying the same
\* token at most one succeeds, and at most one LoginEvent and one login-notification
\* email result from the token
C5_TokenSingleUse ==
    \A t \in 1..nextToken :
        /\ Cardinality({r \in ConfirmsOf(t) : req[r].pc = "done" /\ req[r].status = 200}) <= 1
        /\ Cardinality({e \in loginEvents : e.req \in ConfirmsOf(t)}) <= 1
        /\ Cardinality({e \in emails : e.req \in ConfirmsOf(t) /\ e.kind = "login"}) <= 1

\* C6: a device record with status = approved has confirmed_at non-null
C6_ApprovedHasConfirmedAt ==
    \A k \in Keys : devices[k].status = "approved" => devices[k].confirmed_at # Null

C6_Witness ==
    \E r \in ReqIds :
        /\ req[r].kind = "confirmDevice" /\ req[r].pc = "done" /\ req[r].status = 200
        /\ devices[req[r].key].status = "approved"
        /\ devices[req[r].key].confirmed_at = req[r].now

\* C7: requireApprovedDevice succeeds exactly when the device id is present and the
\* record exists with status = approved and confirmed_at set (toggleCustomerPaused
\* answers 403 otherwise), and toggleCustomerPaused updates clientes only in a request
\* whose check succeeded
C7_RequireApprovedGate ==
    [][\A r \in ReqIds :
          /\ (req[r].pc = "device" /\ req'[r].pc = "work")
                => ApprovedInStore(req[r].bearer, req[r].deviceId)
          /\ (req[r].pc = "device" /\ req'[r].pc = "done")
                => ~ApprovedInStore(req[r].bearer, req[r].deviceId) /\ req'[r].status = 403
          /\ (req[r].pc = "device" /\ ApprovedInStore(req[r].bearer, req[r].deviceId))
                => req'[r].pc \in {"device", "work"}
          /\ (\E e \in clientes' \ clientes : e.req = r)
                => req[r].kind = "toggleCustomerPaused" /\ req[r].pc = "work"
      ]_vars

C7_Witness ==
    \E r \in ReqIds :
        /\ req[r].kind = "toggleCustomerPaused" /\ req[r].status = 200
        /\ \E e \in clientes : e.req = r
        /\ \E q \in ReqIds : req[q].kind = "toggleCustomerPaused" /\ req[q].status = 403

TokensInUse ==
    {devices[k].approval_token : k \in Keys} \cup {e.token : e \in emails}

\* C9: a registerLoginEvent request that finds no record writes exactly one record for
\* its (principal, deviceId): status pending, confirmed_at null and a fresh non-null
\* token; it emails a confirmation link with that token and answers "pending" with
\* requiresConfirmation = true
C9_AbsentToPending ==
    [][\A r \in ReqIds : req[r].kind = "registerLoginEvent" =>
          /\ (req[r].pc = "read" /\ req'[r].pc # "read"
                                   /\ devices[req[r].key].status = "absent")
                => /\ req'[r].pc = "upsert"
                   /\ req'[r].approvalToken # Null
                   /\ req'[r].approvalToken \notin TokensInUse
                   /\ \A q \in ReqIds \ {r} : req[q].approvalToken # req'[r].approvalToken
          /\ (req[r].pc = "upsert" /\ req'[r].pc # "upsert")
                => /\ devices'[req[r].key].status = "pending"
                   /\ devices'[req[r].key].confirmed_at = Null
                   /\ devices'[req[r].key].approval_token = req[r].approvalToken
                   /\ devices'[req[r].key].approval_token # Null
                   /\ \A k \in Keys \ {req[r].key} : devices'[k] = devices[k]
                   /\ req'[r].pc = "mailNew"
          /\ (req[r].pc = "mailNew" /\ req'[r].pc # "mailNew")
                => /\ emails' \ emails =
                        {[req |-> r, kind |-> "confirmation", to |-> req[r].bearer,
                          token |-> req[r].approvalToken]}
                   /\ req'[r].pc = "done" /\ req'[r].status = 200
                   /\ req'[r].body = "pending" /\ req'[r].requiresConfirmation
      ]_vars

C9_Witness ==
    \E r \in ReqIds :
        /\ req[r].kind = "registerLoginEvent" /\ req[r].pc = "done"
        /\ req[r].status = 200 /\ req[r].body = "pending"
        /\ \E e \in emails : e.req = r /\ e.kind = "confirmation"
                              /\ e.token = devices[req[r].key].approval_token
        /\ req[r].rec.last_seen_at = req[r].now
        /\ req[r].requiresConfirmation

\* C10: when registerLoginEvent or checkDeviceStatus handles a device that is not
\* approved, a fresh token replaces the stored one iff resend = true or the stored
\* token is null; otherwise the stored token is kept
C10_ResendReplacesToken ==
    [][\A r \in ReqIds :
          (/\ req[r].kind \in {"registerLoginEvent", "checkDeviceStatus"}
           /\ req[r].pc = "update" /\ req'[r].pc # "update"
           /\ ~IsApproved(req[r].rec))
          => IF req[r].resend \/ req[r].rec.approval_token = Null
             THEN /\ devices'[req[r].key].approval_token # req[r].rec.approval_token
                  /\ devices'[req[r].key].approval_token # Null
             ELSE devices'[req[r].key].approval_token = req[r].rec.approval_token
      ]_vars

(***************************************************************************)
(* Claims about the admin endpoints (SpecAdmin).                           *)
(***************************************************************************)
\* C8: on manageTable, manageGraph, registerUser and listCompanies every privileged
\* operation is performed by a request that has passed, in this order, authentication,
\* the admin-role check and the approved-device check
C8_AdminWorkAfterDeviceCheck ==
    \A e \in adminWork : adm[e.req].checks = <<"auth", "role", "device">>

C12_ApprovedStaysApproved ==
    [][\A r \in ReqIds : (req[r].kind = "registerLoginEvent" /\ IsApproved(req[r].rec)) =>
          /\ (req[r].pc = "mail" /\ req'[r].pc # "mail")
                => /\ emails' \ emails =
                        {[req |-> r, kind |-> "login", to |-> req[r].key[1], token |-> Null]}
                   /\ devices' = devices
                   /\ req'[r].pc = "update"
                   /\ ~req'[r].requiresConfirmation
          /\ (req[r].pc = "update" /\ req'[r].pc # "update")
                => /\ devices'[req[r].key] =
                        [devices[req[r].key] EXCEPT
                            !.last_seen_at = req[r].now,
                            !.device_name = IF req[r].deviceName # req[r].rec.device_name
                                            THEN req[r].deviceName ELSE @]
                   /\ \A k \in Keys \ {req[r].key} : devices'[k] = devices[k]
                   /\ emails' = emails
                   /\ req'[r].pc = "done" /\ req'[r].status = 200
                   /\ ~req'[r].requiresConfirmation
                   /\ IsApproved(devices[req[r].key]) => req'[r].body = "approved"
      ]_vars

\* a login from an approved device under a new device name ran to its end
C12_Witness ==
    \E r \in ReqIds :
        /\ req[r].kind = "registerLoginEvent" /\ req[r].pc = "done" /\ req[r].status = 200
        /\ req[r].body = "approved" /\ ~req[r].requiresConfirmation
        /\ req[r].deviceName = "B" /\ devices[req[r].key].device_name = "B"
        /\ devices[req[r].key].last_seen_at = req[r].now
        /\ IsApproved(devices[req[r].key])
        /\ \E e \in emails : e.req = r /\ e.kind = "login"

(***************************************************************************)
(* Claims about the rate limiter.                                          *)
(***************************************************************************)
\* the earlier calls on the bucket of call i
EarlierOn(i) == {j \in 1..(i - 1) : rlCalls[j].bucket = rlCalls[i].bucket}
Latest(S) == CHOOSE j \in S : \A k \in S : k <= j

\* the call that started the window call i falls in: i itself when the bucket has no
\* earlier call or the window of the latest earlier call is over
Opener[i \in DOMAIN rlCalls] ==
    IF EarlierOn(i) = {} THEN i
    ELSE LET o == Opener[Latest(EarlierOn(i))]
         IN  IF rlCalls[i].at >= rlCalls[o].at + rlCalls[o].options.windowMs THEN i ELSE o

WasAdmitted(i) == rlCalls[i].response.status = 0
\* the admitted calls of the window of call i that came before it
AdmittedBefore(i) == {j \in EarlierOn(i) : Opener[j] = Opener[i] /\ WasAdmitted(j)}

\* C13: per bucket, a call is admitted exactly when it starts a window (no earlier call,
\* or at or after t0 + windowMs of the running window) or fewer than max calls of the
\* running window were admitted before it; every other call gets 429; so at most max
\* calls are admitted in [t0, t0 + windowMs), and a call that starts a window leaves
\* the bucket at count 1 with resetAt = its time + windowMs
C13_RateLimiterBound ==
    /\ \A i \in DOMAIN rlCalls :
          LET call == rlCalls[i]
              t0 == rlCalls[Opener[i]].at
          IN  /\ WasAdmitted(i) <=>
                    (Opener[i] = i \/ Cardinality(AdmittedBefore(i)) < call.options.max)
              /\ ~WasAdmitted(i) => call.response.status = 429
              /\ call.resetAt = t0 + call.options.windowMs
              /\ Cardinality({j \in DOMAIN rlCalls :
                                /\ rlCalls[j].bucket = call.bucket /\ WasAdmitted(j)
                                /\ t0 <= rlCalls[j].at
                                /\ rlCalls[j].at < t0 + call.options.windowMs})
                    <= call.options.max
    /\ \A b \in DOMAIN rateLimitBuckets :
          LET on == {i \in DOMAIN rlCalls : rlCalls[i].bucket = b}
              last == Latest(on)
          IN  /\ on # {}
              /\ rateLimitBuckets[b].resetAt = rlCalls[last].resetAt
              /\ rateLimitBuckets[b].count =
                    Cardinality({j \in on : Opener[j] = Opener[last] /\ WasAdmitted(j)})

\* a bucket refused a call, and after its window was over admitted one again at count 1
C13_Witness ==
    \E i, j \in DOMAIN rlCalls :
        /\ i < j /\ rlCalls[i].bucket = rlCalls[j].bucket
        /\ rlCalls[i].response.status = 429
        /\ WasAdmitted(j) /\ Opener[j] = j
        /\ rateLimitBuckets[rlCalls[j].bucket].count = 1

\* C14: a refused call carries status 429, retryAfterSeconds = ceil((resetAt - now) /
\* 1000) in the body and the same number in the Retry-After header, and the number is
\* at least 1 and at most ceil(windowMs / 1000)
C14_RetryAfter ==
    \A i \in DOMAIN rlCalls :
        ~WasAdmitted(i) =>
            LET call == rlCalls[i]
                n == call.response.retryAfterSeconds
                wait == call.resetAt - call.at
            IN  /\ call.response.status = 429
                /\ (n - 1) * 1000 < wait /\ wait <= n * 1000
                /\ call.response.retryAfter = ToString(n)
                /\ 1 <= n
                /\ (n - 1) * 1000 < call.options.windowMs

\* calls refused with less than a second and with more than a second left to wait
C14_Witness ==
    \E i, j \in DOMAIN rlCalls :
        /\ rlCalls[i].response.status = 429 /\ rlCalls[i].response.retryAfterSeconds = 1
        /\ rlCalls[i].resetAt - rlCalls[i].at = 750
        /\ rlCalls[j].response.status = 429 /\ rlCalls[j].response.retryAfter = "2"
        /\ rlCalls[j].resetAt - rlCalls[j].at = 1250

(***************************************************************************)
(* resolveParams and buildParameterizedQuery on their own.                 *)
(***************************************************************************)
\* largest number of clauses in a template of SpecCompile
MaxClauses == 2

In == Tok("in", "IN")
NotIn == Tok("notin", "NOT IN")
Open == Tok("open", "(")
Close == Tok("close", ")")
Cast == Tok("cast", "::int[]")

\* pieces of query_template; a cast is "::" and the letters, digits, "_", "[", "]" after
\* it, so that "::double precision[]" is a cast followed by more text
Clauses ==
    { <<Sql("SELECT id FROM r WHERE x")>>,
      <<Ws>>,
      <<Marker("a")>>,
      <<Marker("ids")>>,
      <<Marker("ghost")>>,
      <<In, Ws, Open, Marker("ids"), Close>>,
      <<Tok("in", "in"), Open, Ws, Marker("ids"), Ws, Cast, Ws, Close>>,
      <<NotIn, Open, Marker("ids"), Close>>,
      <<Tok("notin", "not in"), Ws, Open, Marker("ids"), Cast, Close>>,
      <<In, Open, Marker("a"), Close>>,
      <<NotIn, Open, Marker("a"), Cast, Close>>,
      <<In, Open, Marker("ids"), Sql(", 0"), Close>>,
      <<In, Open, Marker("ids"), Tok("cast", "::double"), Ws, Sql("precision[]"), Close>> }

RECURSIVE TemplatesOf(_)
\* the templates made of n clauses
TemplatesOf(n) ==
    IF n = 0 THEN {<<>>}
    ELSE {t \o c : t \in TemplatesOf(n - 1), c \in Clauses}

Templates == UNION {TemplatesOf(n) : n \in 0..MaxClauses}

\* param_schema: none, or a string and an array of numbers
CompileSchemas ==
    { <<>>,
      << <<"a", Entry("string")>>, <<"ids", [Entry("array") EXCEPT !.items = "number"]>> >> }

\* parameter bundles of a request
Bundles ==
    { ("a" :> Str("x")) @@ ("ids" :> Arr(<<Num(1), Num(5)>>)),
      ("a" :> Str("'; DROP TABLE x;--")) @@ ("ids" :> Arr(<<Num(1), Num(5)>>)),
      ("a" :> Str("x")) @@ ("ids" :> Str("5, 2000")),
      ("a" :> Str("x")) @@ ("ids" :> Str("2025-01-15")) }

\* resolveParams(schema, default_params, provided) for the request's bundle and for the
\* bundle it is compared with
CQ_Resolve ==
    /\ UNCHANGED notCompVars
    /\ cq.pc = "resolve"
    /\ cq' = [cq EXCEPT !.params = resolveParams(cq.schema, NoParams, cq.provided),
                        !.otherParams = resolveParams(cq.schema, NoParams, cq.other),
                        !.pc = "compile"]

\* buildParameterizedQuery(query_template, params, schema); replaced is the text and
\* placeholderMeta before the array loop
CQ_Compile ==
    /\ UNCHANGED notCompVars
    /\ cq.pc = "compile"
    /\ IF cq.params.ok /\ cq.otherParams.ok
       THEN cq' = [cq EXCEPT
                    !.replaced = ReplaceMarkers(cq.template, 1, cq.params.v, cq.schema,
                                                <<>>, <<>>),
                    !.compiled = buildParameterizedQuery(cq.template, cq.params.v, cq.schema),
                    !.otherCompiled = buildParameterizedQuery(cq.template, cq.otherParams.v,
                                                              cq.schema),
                    !.pc = "again"]
       ELSE cq' = [cq EXCEPT !.pc = "rejected"]

\* the array loop run once more on the compiled text
CQ_RewriteAgain ==
    /\ UNCHANGED notCompVars
    /\ cq.pc = "again"
    /\ IF cq.compiled.ok
       THEN cq' = [cq EXCEPT !.again = RewriteArrays(cq.compiled.v.text, cq.replaced.v.args,
                                                    cq.schema, 1),
                            !.pc = "done"]
       ELSE cq' = [cq EXCEPT !.pc = "failed"]

InitCompile ==
    /\ CoreQuiet /\ RateQuiet /\ RegQuiet /\ ConnQuiet /\ ResQuiet /\ ParseQuiet /\ GateQuiet
    /\ \E template \in Templates, schema \in CompileSchemas, provided \in Bundles,
          other \in Bundles :
          cq = [IdleCq EXCEPT !.pc = "resolve", !.template = template, !.schema = schema,
                              !.provided = provided, !.other = other]

NextCompile == CQ_Resolve \/ CQ_Compile \/ CQ_RewriteAgain

SpecCompile == InitCompile /\ [][NextCompile]_vars

(***************************************************************************)
(* resolveParams on a schema of one entry.                                 *)
(***************************************************************************)
ParamNames == {"start", "end", "data_inicio", "data_fim", "agendamento_inicio", "company"}

SchemaEntries ==
    { Entry("date"), [Entry("date") EXCEPT !.required = TRUE],
      [Entry("date") EXCEPT !.default = Str("1970-01-01")],
      Entry("number"), [Entry("number") EXCEPT !.minimum = Num(5)],
      [Entry("number") EXCEPT !.maximum = Num(5)],
      [Entry("number") EXCEPT !.maximum = Num(2000)],
      [Entry("number") EXCEPT !.enum = <<Num(1), Num(5)>>],
      [Entry("number") EXCEPT !.minimum = Num(5), !.maximum = Num(2000)],
      Entry("string"), [Entry("string") EXCEPT !.required = TRUE],
      Entry("boolean"), [Entry("array") EXCEPT !.required = TRUE],
      [Entry("array") EXCEPT !.items = "string", !.itemsEnum = <<Str("a"), Str("b")>>] }

\* what provided or default_params hold under a name: nothing, null, a string, a number
ValuesUnder(name) ==
    {NoParams, name :> JNull, name :> Str("2025-01-15"), name :> Num(1)}

RP_Resolve ==
    /\ UNCHANGED notResVars
    /\ rp.pc = "resolve"
    /\ rp' = [rp EXCEPT !.result = resolveParams(<< <<rp.name, rp.entry>> >>, rp.defaults,
                                                  rp.provided),
                        !.pc = "done"]

InitResolve ==
    /\ CoreQuiet /\ RateQuiet /\ RegQuiet /\ ConnQuiet /\ CompQuiet /\ ParseQuiet /\ GateQuiet
    /\ \E name \in ParamNames, entry \in SchemaEntries :
          \E defaults \in ValuesUnder(name), provided \in ValuesUnder(name) :
             rp = [IdleRp EXCEPT !.pc = "resolve", !.name = name, !.entry = entry,
                                 !.defaults = defaults, !.provided = provided]

NextResolve == RP_Resolve

SpecResolve == InitResolve /\ [][NextResolve]_vars

(***************************************************************************)
(* payload.ts parseAllowedRoles (part_001 lines 559-592).  A string is a   *)
(* sequence of characters, so that split(",") and trim() are computed.     *)
(***************************************************************************)
\* largest number of characters of a string input, and of items of a list input
MaxRoleChars == 4
MaxRoleItems == 2

RoleChars == {"a", "b", " ", ","}

CharSeqs(n) == UNION {[1..k -> RoleChars] : k \in 0..n}

\* the default of the parameter fallback: ["user", "authenticated"]
DefaultFallback ==
    << <<"u", "s", "e", "r">>,
       <<"a", "u", "t", "h", "e", "n", "t", "i", "c", "a", "t", "e", "d">> >>

\* String(item) of the list items that are not strings
StringOfItem(item) ==
    CASE item.t = "str" -> item.v
      [] item.t = "num" -> <<"5">>
      [] item.t = "null" -> <<"n", "u", "l", "l">>
      [] OTHER -> <<"t", "r", "u", "e">>

RECURSIVE TrimStart(_)
TrimStart(chars) ==
    IF chars # <<>> /\ Head(chars) = " " THEN TrimStart(Tail(chars)) ELSE chars

RECURSIVE TrimEnd(_)
TrimEnd(chars) ==
    IF chars # <<>> /\ chars[Len(chars)] = " "
    THEN TrimEnd(SubSeq(chars, 1, Len(chars) - 1)) ELSE chars

\* role.trim()
Trim(chars) == TrimEnd(TrimStart(chars))

RECURSIVE SplitOnComma(_, _)
\* value.split(","): current is the piece read so far
SplitOnComma(chars, current) ==
    IF chars = <<>> THEN <<current>>
    ELSE IF Head(chars) = "," THEN <<current>> \o SplitOnComma(Tail(chars), <<>>)
    ELSE SplitOnComma(Tail(chars), Append(current, Head(chars)))

\* unique.add(item): a Set keeps the order of first insertion
AddUnique(unique, item) ==
    IF \E i \in DOMAIN unique : unique[i] = item THEN unique ELSE Append(unique, item)

RECURSIVE AddAll(_, _)
AddAll(unique, items) ==
    IF items = <<>> THEN unique ELSE AddAll(AddUnique(unique, Head(items)), Tail(items))

RECURSIVE AddTrimmed(_, _)
\* a loop that keeps the roles as written
AddTrimmed_AsWritten(unique, roles) ==
    IF roles = <<>> THEN unique
    ELSE AddTrimmed(IF Len(Trim(Head(roles))) > 0 THEN AddUnique(unique, Head(roles))
                    ELSE unique,
                    Tail(roles))

\* the loop of normalizeRoles: trimmed, non-empty roles go into the Set
AddTrimmed(unique, roles) ==
    IF roles = <<>> THEN unique
    ELSE AddTrimmed(IF Len(Trim(Head(roles))) > 0 THEN AddUnique(unique, Trim(Head(roles)))
                    ELSE unique,
                    Tail(roles))

\* if (unique.size === 0) the fallback items are added
OrFallback(unique, fallback) == IF unique = <<>> THEN AddAll(<<>>, fallback) ELSE unique

normalizeRoles(roles, fallback) == OrFallback(AddTrimmed(<<>>, roles), fallback)

parseAllowedRoles(value, fallback) ==
    IF value.t \in {"null", "undef"} \/ (value.t = "str" /\ value.v = <<>>) THEN fallback
    ELSE IF value.t = "arr"
         THEN normalizeRoles([i \in DOMAIN value.v |-> StringOfItem(value.v[i])], fallback)
    ELSE IF value.t = "str" THEN normalizeRoles(SplitOnComma(value.v, <<>>), fallback)
    ELSE normalizeRoles(<<StringOfItem(value)>>, fallback)

\* items of a list input: short strings, and values that are not strings
RoleItems == {Str(chars) : chars \in CharSeqs(2)} \cup {Num(5), JNull}

ParseInputs ==
    {Undef, JNull, Num(5)}
    \cup {Str(chars) : chars \in CharSeqs(MaxRoleChars)}
    \cup {Arr(items) : items \in UNION {[1..k -> RoleItems] : k \in 0..MaxRoleItems}}

PA_Parse ==
    /\ UNCHANGED notParseVars
    /\ pa.pc = "call"
    /\ pa' = [pa EXCEPT !.pc = "done", !.result = parseAllowedRoles(pa.value, DefaultFallback)]

InitParse ==
    /\ CoreQuiet /\ RateQuiet /\ RegQuiet /\ ConnQuiet /\ CompQuiet /\ ResQuiet /\ GateQuiet
    /\ \E value \in ParseInputs : pa = [IdlePa EXCEPT !.pc = "call", !.value = value]

NextParse == PA_Parse

SpecParse == InitParse /\ [][NextParse]_vars

(***************************************************************************)
(* The preamble of the handlers, and the tenant lookup.  One request is    *)
(* followed from its arrival to its response: preflight, method check,     *)
(* applyRateLimit, bearer token, identity provider, device gate, db_info   *)
(* row, tenant connection, queries.                                        *)
(***************************************************************************)
Methods == {"OPTIONS", "GET", "POST"}
\* Authorization headers: missing, rejected by the identity provider, or the
\* principal the token belongs to
GateBearers == {"none", "bad"} \cup Users
\* what the body says about the tenant: a user id it names, or text that does not parse
GateBodies == {"bad"} \cup Users

LimitedEndpoints ==
    {"registerLoginEvent", "checkDeviceStatus", "listCompanies", "toggleCustomerPaused"}

AllowedMethods(endpoint) ==
    IF endpoint = "listCompanies" THEN {"GET", "POST"} ELSE {"POST"}

\* the options of the four call sites: windowMs 60000 and max 20, 30, 30, 10 scaled down
GateOptions(endpoint) == [identifier |-> endpoint, windowMs |-> 1000, max |-> 1]

\* getBearerToken(request)?.slice(-16) ?? "anon"
TokenFragment(bearer) == IF bearer = "none" THEN "anon" ELSE bearer

\* keyGenerator: getClientIp by default; `${ip}:${tokenFragment}` for listCompanies and
\* toggleCustomerPaused.  Every request comes from the address ip1.
GateKeyPart(endpoint, bearer) ==
    IF endpoint \in {"listCompanies", "toggleCustomerPaused"}
    THEN "ip1:" \o TokenFragment(bearer)
    ELSE "ip1"

\* `${identifier}:${finalKey}`
GateBucketKey(endpoint, bearer) == endpoint \o ":" \o GateKeyPart(endpoint, bearer)

\* the connection URL built from the db_info row whose id_user is userId
TenantOf(userId) == "postgres://" \o userId

GwRespond(base, code) == [base EXCEPT !.pc = "done", !.status = code]

\* what the gate and the later steps leave alone
gateFrame == <<devVars, admVars, batchVars, regVars, connVars, compVars, resVars, parseVars,
               wallClock, rlCalls>>

\* a preamble that looks for the bearer token before it counts the request
HandlerGate_TokenFirst(g, endpoint) ==
    /\ UNCHANGED gateFrame
    /\ gw[g].pc = "idle"
    /\ \A earlier \in 1..(g - 1) : gw[earlier].pc # "idle"
    /\ \E method \in Methods, header \in GateBearers :
          LET \* the Authorization header is read only after the method check
              bearer == IF method \in AllowedMethods(endpoint) THEN header ELSE "none"
              base == [IdleGw EXCEPT !.endpoint = endpoint, !.method = method,
                                     !.bearer = bearer]
              result == applyRateLimit(rateLimitBuckets, GateBucketKey(endpoint, bearer),
                                       GateOptions(endpoint), wallClock)
          IN  IF method = "OPTIONS"
              THEN /\ gw' = [gw EXCEPT ![g] = GwRespond(base, 204)]
                   /\ UNCHANGED rateLimitBuckets
              ELSE IF method \notin AllowedMethods(endpoint)
              THEN /\ gw' = [gw EXCEPT ![g] = GwRespond(base, 405)]
                   /\ UNCHANGED rateLimitBuckets
              ELSE IF bearer = "none"
              THEN /\ gw' = [gw EXCEPT ![g] = GwRespond(base, 401)]
                   /\ UNCHANGED rateLimitBuckets
              ELSE IF endpoint \in LimitedEndpoints
              THEN /\ rateLimitBuckets' = result.buckets
                   /\ gw' = [gw EXCEPT ![g] =
                          IF result.response.status = 429 THEN GwRespond(base, 429)
                          ELSE [base EXCEPT !.pc = "auth"]]
              ELSE /\ gw' = [gw EXCEPT ![g] = [base EXCEPT !.pc = "auth"]]
                   /\ UNCHANGED rateLimitBuckets

\* the synchronous start of a handler: handlePreflight, the method check, applyRateLimit
\* (the four limited endpoints), getBearerToken
HandlerGate(g, endpoint) ==
    /\ UNCHANGED gateFrame
    /\ gw[g].pc = "idle"
    /\ \A earlier \in 1..(g - 1) : gw[earlier].pc # "idle"
    /\ \E method \in Methods, header \in GateBearers :
          LET \* the Authorization header is read only after the method check
              bearer == IF method \in AllowedMethods(endpoint) THEN header ELSE "none"
              base == [IdleGw EXCEPT !.endpoint = endpoint, !.method = method,
                                     !.bearer = bearer]
              result == applyRateLimit(rateLimitBuckets, GateBucketKey(endpoint, bearer),
                                       GateOptions(endpoint), wallClock)
          IN  IF method = "OPTIONS"
              THEN /\ gw' = [gw EXCEPT ![g] = GwRespond(base, 204)]
                   /\ UNCHANGED rateLimitBuckets
              ELSE IF method \notin AllowedMethods(endpoint)
              THEN /\ gw' = [gw EXCEPT ![g] = GwRespond(base, 405)]
                   /\ UNCHANGED rateLimitBuckets
              ELSE IF endpoint \in LimitedEndpoints
              THEN /\ rateLimitBuckets' = result.buckets
                   /\ gw' = [gw EXCEPT ![g] =
                          IF result.response.status = 429 THEN GwRespond(base, 429)
                          ELSE IF bearer = "none" THEN GwRespond(base, 401)
                          ELSE [base EXCEPT !.pc = "auth"]]
              ELSE /\ gw' = [gw EXCEPT ![g] =
                          IF bearer = "none" THEN GwRespond(base, 401)
                          ELSE [base EXCEPT !.pc = "auth"]]
                   /\ UNCHANGED rateLimitBuckets

\* registerLoginEvent lines 239-264
RLE_Gate(g) == HandlerGate(g, "registerLoginEvent")
\* checkDeviceStatus lines 440-465
CDS_Gate(g) == HandlerGate(g, "checkDeviceStatus")
\* listCompanies lines 79-111
LC_Gate(g) == HandlerGate(g, "listCompanies")
\* toggleCustomerPaused lines 72-104
TCP_Gate(g) == HandlerGate(g, "toggleCustomerPaused")
\* fetchUserData lines 670-709: no applyRateLimit
FUD_Gate(g) == HandlerGate(g, "fetchUserData")

\* await requireAuthenticatedUser(token) / requireAdminUser(token) / auth.getUser(token):
\* one call of the identity provider
GW_Auth(g) ==
    /\ UNCHANGED <<gateFrame, rateLimitBuckets>>
    /\ gw[g].pc = "auth"
    /\ LET called == [gw[g] EXCEPT !.effects = Append(@, "getUser")]
           endpoint == gw[g].endpoint
           bearer == gw[g].bearer
           authed == [called EXCEPT !.principal = bearer]
       IN  gw' = [gw EXCEPT ![g] =
              IF endpoint = "listCompanies"
              THEN (IF requireAdminUser(bearer) = "unauthenticated" THEN GwRespond(called, 401)
                    ELSE IF requireAdminUser(bearer) = "denied" THEN GwRespond(called, 403)
                    ELSE [authed EXCEPT !.pc = "device"])
              ELSE IF bearer \notin Users
              THEN \* the two device endpoints let the error reach their outer catch
                   GwRespond(called,
                             IF endpoint \in {"registerLoginEvent", "checkDeviceStatus"}
                             THEN 500 ELSE 401)
              ELSE [authed EXCEPT !.pc =
                      CASE endpoint = "toggleCustomerPaused" -> "device"
                        [] endpoint = "fetchUserData" -> "tenant"
                        [] OTHER -> "work"]]

\* await requireApprovedDevice(user.id, getClientDeviceId(req)): without a device id it
\* throws before it reads the store
GW_Device(g) ==
    /\ UNCHANGED <<gateFrame, rateLimitBuckets>>
    /\ gw[g].pc = "device"
    /\ \E header \in DeviceInputs :
          LET deviceId == getClientDeviceId(header)
              read == [gw[g] EXCEPT !.deviceId = deviceId,
                          !.effects = IF deviceId = "none" THEN @ ELSE Append(@, "deviceRead")]
          IN  gw' = [gw EXCEPT ![g] =
                 IF ~requireApprovedDevice(gw[g].principal, deviceId) THEN GwRespond(read, 403)
                 ELSE [read EXCEPT !.pc = IF gw[g].endpoint = "listCompanies"
                                          THEN "work" ELSE "tenant"]]

\* a lookup of the db_info row the body names
GW_Tenant_ByBody(g) ==
    /\ UNCHANGED <<gateFrame, rateLimitBuckets>>
    /\ gw[g].pc = "tenant"
    /\ \E body \in GateBodies :
          LET looked == [gw[g] EXCEPT !.body = body, !.effects = Append(@, "db_info")]
          IN  gw' = [gw EXCEPT ![g] =
                 IF body \notin db_info THEN GwRespond(looked, 404)
                 ELSE [looked EXCEPT !.coords = TenantOf(body), !.pc = "connect"]]

\* from("db_info").select(...).eq("id_user", user.id).single(), then the connection URL
\* of new Pool(clientConnectionUrl, 5, true)
GW_Tenant(g) ==
    /\ UNCHANGED <<gateFrame, rateLimitBuckets>>
    /\ gw[g].pc = "tenant"
    /\ LET looked == [gw[g] EXCEPT !.effects = Append(@, "db_info")]
       IN  gw' = [gw EXCEPT ![g] =
              IF gw[g].principal \notin db_info THEN GwRespond(looked, 404)
              ELSE [looked EXCEPT !.coords = TenantOf(gw[g].principal), !.pc = "connect"]]

\* await pool.connect(), then the body is read
GW_Connect(g) ==
    /\ UNCHANGED <<gateFrame, rateLimitBuckets>>
    /\ gw[g].pc = "connect"
    /\ \E body \in GateBodies :
          LET connected == [gw[g] EXCEPT !.body = body, !.effects = Append(@, "connect")]
          IN  gw' = [gw EXCEPT ![g] =
                 IF gw[g].endpoint = "toggleCustomerPaused" /\ body = "bad"
                 THEN GwRespond(connected, 400)
                 ELSE [connected EXCEPT !.pc = "query"]]

\* await client.queryObject(...): toggleCustomerPaused runs its UPDATE, fetchUserData the
\* chart catalog and then the table catalog, all on the client of the one pool
GW_Query(g) ==
    /\ UNCHANGED <<gateFrame, rateLimitBuckets>>
    /\ gw[g].pc = "query"
    /\ LET queried == [gw[g] EXCEPT !.ran = Append(@, gw[g].coords),
                                    !.effects = Append(@, "query")]
       IN  IF gw[g].endpoint = "toggleCustomerPaused"
           THEN \E code \in {200, 404} : gw' = [gw EXCEPT ![g] = GwRespond(queried, code)]
           ELSE gw' = [gw EXCEPT ![g] =
                   IF Len(queried.ran) < 2 THEN queried ELSE GwRespond(queried, 200)]

\* the rest of registerLoginEvent (the LoginEvent insert, the device record),
\* checkDeviceStatus (the device record) and listCompanies (the select on db_info);
\* the two device endpoints answer 400 to a body without deviceId
GW_Work(g) ==
    /\ UNCHANGED <<gateFrame, rateLimitBuckets>>
    /\ gw[g].pc = "work"
    /\ \E deviceId \in DeviceInputs :
          gw' = [gw EXCEPT ![g] =
             IF gw[g].endpoint = "listCompanies"
             THEN GwRespond([gw[g] EXCEPT !.effects = Append(@, "db_info")], 200)
             ELSE IF deviceId = "none" THEN GwRespond(gw[g], 400)
             ELSE GwRespond([gw[g] EXCEPT !.deviceId = deviceId,
                                !.effects = @ \o (IF gw[g].endpoint = "registerLoginEvent"
                                                  THEN <<"loginEventInsert", "deviceRead",
                                                         "deviceWrite">>
                                                  ELSE <<"deviceRead">>)],
                            200)]

\* the device store of the gate: the device d1 approved for both users, or pending for u1
GateStores ==
    {[k \in Keys |-> ApprovedRecord],
     [k \in Keys |-> IF k = <<"u1", "d1">> THEN PendingRecord ELSE NoRecord]}

\* u1 is an administrator, u2 is not; u1 has a db_info row, u2 may have none
InitGate ==
    /\ devices \in GateStores
    /\ DevQuiet
    /\ adm = [a \in AdmIds |-> IdleAdm]
    /\ admStarted = 0
    /\ metadata = [u \in Users |-> IF u = "u1" THEN [NoMeta EXCEPT !.app_role = "admin"]
                                   ELSE NoMeta]
    /\ graficos = [s \in Slugs |-> 0]
    /\ dashboard_tables = [s \in Slugs |-> 0]
    /\ authUsers = {}
    /\ db_info \in {{"u1"}, {"u1", "u2"}}
    /\ adminWork = {}
    /\ BatchQuiet
    /\ RestQuiet

NextGate ==
    \E g \in GwIds :
        \/ RLE_Gate(g) \/ CDS_Gate(g) \/ LC_Gate(g) \/ TCP_Gate(g)
        \/ GW_Auth(g) \/ GW_Device(g) \/ GW_Tenant(g) \/ GW_Connect(g) \/ GW_Query(g)
        \/ GW_Work(g)

SpecGate == InitGate /\ [][NextGate]_vars

NextTenant ==
    \E g \in GwIds :
        \/ FUD_Gate(g) \/ TCP_Gate(g)
        \/ GW_Auth(g) \/ GW_Device(g) \/ GW_Tenant(g) \/ GW_Connect(g) \/ GW_Query(g)

SpecTenant == InitGate /\ [][NextTenant]_vars

(***************************************************************************)
(* The tenant connection of a handler: pool.connect, try, finally.         *)
(***************************************************************************)
ConnHandlers == {"fetchUserData", "toggleCustomerPaused", "manageTable", "manageGraph"}

\* the awaited steps inside the try block, in order
ConnSteps ==
    [h \in ConnHandlers |->
        CASE h = "fetchUserData" -> <<"chartMeta", "charts", "tables">>
          [] h = "toggleCustomerPaused" -> <<"body", "update">>
          [] OTHER -> <<"exists", "insert">>]

Goes == [kind |-> "next", status |-> 0, queryError |-> FALSE]
Caught == [kind |-> "next", status |-> 0, queryError |-> TRUE]
Returns(status) == [kind |-> "return", status |-> status, queryError |-> FALSE]
ReturnsWithErrors(status) == [kind |-> "return", status |-> status, queryError |-> TRUE]
Throws == [kind |-> "throw", status |-> 500, queryError |-> FALSE]

\* how a step of the try block can end
StepOutcomes(handler, step) ==
    CASE handler = "fetchUserData" /\ step = "chartMeta" -> {Goes, Throws}
      [] handler = "fetchUserData" /\ step = "charts" -> {Goes, Caught}
      [] handler = "fetchUserData" /\ step = "tables" -> {Returns(200), ReturnsWithErrors(200)}
      [] handler = "toggleCustomerPaused" /\ step = "body" -> {Goes, Returns(400), Throws}
      [] handler = "toggleCustomerPaused" /\ step = "update" ->
             {Returns(200), Returns(404), Throws}
      [] step = "exists" -> {Goes, Returns(409), Throws}
      [] OTHER -> {Returns(201), Throws}

\* a throw that skips the finally block: release on the other exits only
Unwind_NotOnThrow(t, outcome) ==
    [t EXCEPT !.pc = IF outcome.kind = "throw" THEN "return" ELSE "finally",
              !.pending = outcome.status, !.via = outcome.kind,
              !.queryError = @ \/ outcome.queryError]

\* a return or a throw inside try { ... } finally { ... }: the finally block runs next
Unwind(t, outcome) ==
    [t EXCEPT !.pc = "finally", !.pending = outcome.status, !.via = outcome.kind,
              !.queryError = @ \/ outcome.queryError]

\* the request reaches the handler's tenant lookup
Conn_Begin(c) ==
    /\ UNCHANGED notConnVars
    /\ tconn[c].pc = "idle"
    /\ \E handler \in ConnHandlers :
          tconn' = [tconn EXCEPT ![c] = [IdleConn EXCEPT !.handler = handler, !.pc = "connect"]]

\* new Pool(...); await pool.connect(): a rejection reaches the outer catch
Conn_Connect(c) ==
    /\ UNCHANGED notConnVars
    /\ tconn[c].pc = "connect"
    /\ \/ tconn' = [tconn EXCEPT ![c] = [@ EXCEPT !.pc = "try", !.step = 1, !.acquired = 1]]
       \/ tconn' = [tconn EXCEPT ![c] = [@ EXCEPT !.pc = "done", !.via = "throw",
                                                  !.status = 500]]

\* one awaited step of the try block
Conn_Step(c) ==
    /\ UNCHANGED notConnVars
    /\ tconn[c].pc = "try"
    /\ \E outcome \in StepOutcomes(tconn[c].handler,
                                    ConnSteps[tconn[c].handler][tconn[c].step]) :
          tconn' = [tconn EXCEPT ![c] =
                      IF outcome.kind = "next"
                      THEN [@ EXCEPT !.step = @ + 1,
                                     !.queryError = @ \/ outcome.queryError]
                      ELSE Unwind(@, outcome)]

\* finally { client.release(); await pool.end(); }: a rejection of pool.end() reaches
\* the outer catch
Conn_Finally(c) ==
    /\ UNCHANGED notConnVars
    /\ tconn[c].pc = "finally"
    /\ \/ tconn' = [tconn EXCEPT ![c] = [@ EXCEPT !.pc = "return", !.released = @ + 1]]
       \/ tconn' = [tconn EXCEPT ![c] = [@ EXCEPT !.pc = "return", !.released = @ + 1,
                                                  !.pending = 500]]

\* the response leaves the handler (a throw is answered by the outer catch)
Conn_Return(c) ==
    /\ UNCHANGED notConnVars
    /\ tconn[c].pc = "return"
    /\ tconn' = [tconn EXCEPT ![c] = [@ EXCEPT !.pc = "done", !.status = tconn[c].pending]]

InitConn == CoreQuiet /\ RestQuiet

NextConn ==
    \E c \in ConnIds :
        \/ Conn_Begin(c) \/ Conn_Connect(c) \/ Conn_Step(c)
        \/ Conn_Finally(c) \/ Conn_Return(c)

SpecConn == InitConn /\ [][NextConn]_vars

(***************************************************************************)
(* Claims about registerUser and the rate limiter.                         *)
(***************************************************************************)
\* the calls answered before call i in the 60 s that end with call i, not counting
\* calls that were themselves turned away
ProcessedBefore(i) ==
    {j \in 1..(i - 1) : ruCalls[j].at > ruCalls[i].at - 60000 /\ ~ruCalls[j].limited}

\* C15: registerUser is rate limited at 10 requests per 60 s per caller: once 10 calls
\* of the caller were processed within 60 s, the next call within the same 60 s is
\* answered 429.
C15_RegisterUserRateLimited ==
    \A i \in DOMAIN ruCalls :
        Cardinality(ProcessedBefore(i)) >= 10 => ruCalls[i].limited

\* C16: a tenant connection acquired by a handler is released exactly once before the
\* handler returns, on every exit path after acquisition (completion, early 4xx return,
\* per-query error, exception); while the try block runs the connection is held.
C16_ReleasedExactlyOnce ==
    \A c \in ConnIds :
        /\ tconn[c].released <= tconn[c].acquired
        /\ tconn[c].pc = "try" => tconn[c].acquired = 1 /\ tconn[c].released = 0
        /\ tconn[c].pc \in {"return", "done"} => tconn[c].released = tconn[c].acquired

\* an early 4xx return and a thrown exception, both answered after one release
C16_Witness ==
    \E c, d \in ConnIds :
        /\ tconn[c].pc = "done" /\ tconn[c].status \in {400, 404, 409}
        /\ tconn[c].acquired = 1 /\ tconn[c].released = 1
        /\ tconn[d].pc = "done" /\ tconn[d].via = "throw" /\ tconn[d].status = 500
        /\ tconn[d].acquired = 1 /\ tconn[d].released = 1

(***************************************************************************)
(* Claims about the template compiler.                                     *)
(***************************************************************************)
Compiled == cq.pc \in {"again", "done"} /\ cq.compiled.ok

\* the {{name}} markers of a template: their positions and their names
MarkerPositions(template) == {i \in DOMAIN template : template[i].k = "marker"}
MarkerNames(template) == {template[i].s : i \in MarkerPositions(template)}

\* every $k of the text is in 1..len(args) and no marker is left
PlaceholdersBound(query) ==
    /\ \A i \in DOMAIN query.text :
          query.text[i].k = "arg" =>
              1 <= query.text[i].n /\ query.text[i].n <= Len(query.args)
    /\ MarkerPositions(query.text) = {}

\* C17 as stated: the compiled args have as many elements as the template has distinct
\* placeholder names; every $k of the text is in 1..len(args); no marker remains.
C17_RoundTrip_DistinctNames ==
    Compiled =>
        /\ Len(cq.compiled.v.args) = Cardinality(MarkerNames(cq.template))
        /\ PlaceholdersBound(cq.compiled.v)

\* C17: the compiled args have one element per placeholder marker of the template, a
\* repeated name counted each time; every $k of the text is in 1..len(args); no marker
\* remains.
C17_RoundTrip ==
    Compiled =>
        /\ Len(cq.compiled.v.args) = Cardinality(MarkerPositions(cq.template))
        /\ PlaceholdersBound(cq.compiled.v)

\* a compiled template that names one parameter twice
C17_Witness ==
    /\ Compiled
    /\ Cardinality(MarkerPositions(cq.template)) = 2
    /\ Cardinality(MarkerNames(cq.template)) = 1
    /\ Len(cq.compiled.v.args) = 2

\* two bundles with the same keys whose values differ in strings only
SameButStrings(p, q) ==
    /\ DOMAIN p = DOMAIN q
    /\ \A k \in DOMAIN p : p[k] # q[k] => p[k].t = "str" /\ q[k].t = "str"

\* the tokens a compiled text is made of: the template's own, placeholders, and the
\* operators of the array rewrite
TextFromTemplate(query, template) ==
    \A i \in DOMAIN query.text :
        \/ query.text[i].k = "arg"
        \/ query.text[i].k # "marker" /\ query.text[i] \in Range(template)
        \/ query.text[i] \in {Sql("= ANY("), Sql("<> ALL("), Close}

\* C18: the compiled text does not depend on the value of a string parameter: bundles
\* with the same keys that differ in string values only compile to the same text (or
\* both fail), and the text holds nothing but template tokens and placeholders, the
\* values being the elements of args.
C18_InjectionResistance ==
    cq.pc \in {"again", "done", "failed"} =>
        /\ SameButStrings(cq.params.v, cq.otherParams.v) =>
              /\ cq.compiled.ok = cq.otherCompiled.ok
              /\ cq.compiled.ok => cq.compiled.v.text = cq.otherCompiled.v.text
        /\ cq.compiled.ok =>
              /\ TextFromTemplate(cq.compiled.v, cq.template)
              /\ \A k \in DOMAIN cq.compiled.v.args :
                    cq.compiled.v.args[k] = cq.params.v[cq.replaced.v.args[k].paramName]

\* two bundles that differ in the string the template uses
C18_Witness ==
    /\ Compiled
    /\ SameButStrings(cq.params.v, cq.otherParams.v)
    /\ "a" \in MarkerNames(cq.template)
    /\ cq.params.v["a"] = Str("'; DROP TABLE x;--")
    /\ cq.otherParams.v["a"] = Str("x")
    /\ cq.compiled.v.args # cq.otherCompiled.v.args
    /\ cq.compiled.v.text = cq.otherCompiled.v.text

\* IN or NOT IN at position i, then "(", one placeholder with an optional cast, ")",
\* white space allowed in between
OccurrenceAt(text, i) ==
    LET open == SkipWs(text, i + 1)
        arg == SkipWs(text, open + 1)
        cast == SkipWs(text, arg + 1)
        hasCast == cast <= Len(text) /\ text[cast].k = "cast"
        close == IF hasCast THEN SkipWs(text, cast + 1) ELSE cast
    IN  [found |-> /\ text[i].k \in {"in", "notin"}
                   /\ open <= Len(text) /\ text[open].k = "open"
                   /\ arg <= Len(text) /\ text[arg].k = "arg"
                   /\ close <= Len(text) /\ text[close].k = "close",
         arg |-> arg, last |-> IF hasCast THEN cast ELSE arg, close |-> close]

RECURSIVE ExpectedRewrite(_, _, _)
\* one pass over the text: each occurrence around an array placeholder becomes
\* = ANY($k[::cast]) or <> ALL($k[::cast]), everything else is copied
ExpectedRewrite(text, i, arrays) ==
    IF i > Len(text) THEN <<>>
    ELSE IF OccurrenceAt(text, i).found /\ text[OccurrenceAt(text, i).arg].n \in arrays
         THEN <<Sql(IF text[i].k = "notin" THEN "<> ALL(" ELSE "= ANY(")>>
              \o SubSeq(text, OccurrenceAt(text, i).arg, OccurrenceAt(text, i).last)
              \o <<Close>>
              \o ExpectedRewrite(text, OccurrenceAt(text, i).close + 1, arrays)
         ELSE <<text[i]>> \o ExpectedRewrite(text, i + 1, arrays)

\* the placeholders whose parameter is an array: by the schema, or the value is a list
ArrayPlaceholders ==
    {k \in DOMAIN cq.replaced.v.args :
        \/ cq.replaced.v.args[k].value.t = "arr"
        \/ \E e \in Range(cq.schema) :
              e[1] = cq.replaced.v.args[k].paramName /\ e[2].type = "array"}

\* C19: in the compiled text every IN ( $k [::cast] ) around an array placeholder has
\* become = ANY($k[::cast]) and every NOT IN ( $k [::cast] ) has become
\* <> ALL($k[::cast]), in any letter case, the cast kept; the list is the single
\* argument args[k]; around a placeholder that is not an array nothing changes.
C19_ArrayRewrite ==
    Compiled =>
        /\ cq.compiled.v.text = ExpectedRewrite(cq.replaced.v.text, 1, ArrayPlaceholders)
        /\ \A k \in ArrayPlaceholders :
              cq.compiled.v.args[k] = cq.params.v[cq.replaced.v.args[k].paramName]

\* NOT IN with a cast rewritten for an array, IN kept for a string
C19_Witness ==
    /\ Compiled
    /\ \E i \in DOMAIN cq.compiled.v.text :
          /\ cq.compiled.v.text[i] = Sql("<> ALL(")
          /\ cq.compiled.v.text[i + 1].k = "arg"
          /\ cq.compiled.v.text[i + 1].n \in ArrayPlaceholders
          /\ cq.compiled.v.text[i + 2] = Cast
    /\ \E i \in DOMAIN cq.compiled.v.text :
          /\ cq.compiled.v.text[i].k = "in"
          /\ OccurrenceAt(cq.compiled.v.text, i).found
          /\ cq.compiled.v.text[OccurrenceAt(cq.compiled.v.text, i).arg].n
                \notin ArrayPlaceholders

\* C20: the array rewrite applied to an already rewritten text changes nothing.
C20_RewriteIdempotent ==
    cq.pc = "done" => cq.again = cq.compiled.v.text

\* a text the first rewrite changed
C20_Witness ==
    /\ cq.pc = "done"
    /\ cq.compiled.v.text # cq.replaced.v.text
    /\ cq.again = cq.compiled.v.text

(***************************************************************************)
(* Claims about resolveParams.                                             *)
(***************************************************************************)
\* the object has a value under the name: the key is there and is not null
HasValue(object, name) == name \in DOMAIN object /\ ~IsNullish(object[name])

\* provided[name], else defaults[name], else the auto-default
ValueByPrecedence ==
    IF HasValue(rp.provided, rp.name) THEN rp.provided[rp.name]
    ELSE IF HasValue(rp.defaults, rp.name) THEN rp.defaults[rp.name]
    ELSE computeAutoDefaultValue(rp.name, rp.entry)

\* the bundle resolveParams returns when it normalizes the value
BundleOf(normalized) ==
    IF ~normalized.ok THEN normalized
    ELSE Ok(IF normalized.v = Undef THEN NoParams ELSE rp.name :> normalized.v)

\* C21: for a name declared in the schema resolveParams uses provided[name] when
\* provided has a value for it, otherwise defaults[name] when defaults has a value for
\* it, otherwise the auto-default.
C21_ParameterPrecedence ==
    rp.pc = "done" =>
        rp.result = BundleOf(normalizeValue(rp.name, rp.entry, ValueByPrecedence))

\* C23: a date parameter with no provided value and no default is today minus 30 days
\* when its name matches /inicio|início|start|begin/i, and today otherwise.
C23_DateAutoDefault ==
    (/\ rp.pc = "done"
     /\ rp.entry.type = "date" /\ rp.entry.default = Undef
     /\ ~HasValue(rp.provided, rp.name) /\ rp.name \notin DOMAIN rp.defaults)
    => rp.result = Ok(rp.name :> Str(IF rp.name \in StartNames THEN TodayMinus30 ELSE Today))

(***************************************************************************)
(* Claims about parameters and templates inside the batch (SpecBatch).     *)
(***************************************************************************)
\* the only schema entry of the row is required and has no provided value, no default
\* and no value computeAutoDefaultValue can make up
LacksRequired(row, entries) ==
    /\ Len(row.param_schema) = 1
    /\ row.param_schema[1][2].required
    /\ ~HasValue(ProvidedFor(entries, row.slug), row.param_schema[1][1])
    /\ ~HasValue(row.default_params, row.param_schema[1][1])
    /\ computeAutoDefaultValue(row.param_schema[1][1], row.param_schema[1][2]) = Undef

MissingRequired(row) == Fail("Parâmetro obrigatório ausente", row.param_schema[1][1]).error

\* the row is served when asked for on its own by the same caller
ServedAlone(row, entries, userRoles) ==
    RowOutcome(row, ProvidedFor(entries, row.slug), userRoles, "denied").kind = "rows"

\* C22: a chart row that passes the template and role checks and whose required entry
\* has no provided value, no default and no auto-default gets the error "Parâmetro
\* obrigatório ausente: <name>" under its own slug and runs nothing; no other slug
\* of the batch carries that error, and every other row of the batch that is served
\* on its own has its dataset.
C22_RequiredParamMissing ==
    (Answered /\ fud.chartLoop) =>
        \A i \in DOMAIN fud.chartMeta :
            LET row == fud.chartMeta[i]
            IN  (/\ LacksRequired(row, fud.requestedGraphs)
                 /\ ~IsBlankTemplate(row.query_template)
                 /\ ~Denied(row)) =>
                    /\ row.slug \in DOMAIN fud.errors
                    /\ fud.errors[row.slug] = MissingRequired(row)
                    /\ NeverServed(row, "chart", fud.datasets, fud.debug)
                    /\ \A k \in DOMAIN fud.errors \ {row.slug} :
                          fud.errors[k] # MissingRequired(row)
                    /\ \A j \in DOMAIN fud.chartMeta \ {i} :
                          ServedAlone(fud.chartMeta[j], fud.requestedGraphs, fud.userRoles)
                              => fud.chartMeta[j].id \in fud.datasets

\* a batch of "needs" without its required ref and "sales", which needs nothing from
\* the client: the error under "needs" only, the rows of "sales" present
C22_Witness ==
    /\ Answered
    /\ SlugsOf(fud.requestedGraphs) = {"needs", "sales"}
    /\ DOMAIN fud.errors = {"needs"}
    /\ fud.errors["needs"] = Fail("Parâmetro obrigatório ausente", "ref").error
    /\ fud.datasets = {7}

\* the markers of the template whose name is no key of the bundle
UnboundMarkers(template, params) ==
    {i \in DOMAIN template : template[i].k = "marker" /\ template[i].s \notin DOMAIN params}

FirstUnbound(template, params) ==
    template[CHOOSE i \in UnboundMarkers(template, params) :
                \A j \in UnboundMarkers(template, params) : i <= j].s

\* the bundle resolveParams returns for the row in this batch
ResolvedFor(row, entries) ==
    resolveParams(row.param_schema, row.default_params, ProvidedFor(entries, row.slug))

\* the row reaches buildParameterizedQuery with a marker that its bundle does not bind
HasUnbound(row, entries) ==
    /\ ~IsBlankTemplate(row.query_template)
    /\ ~Denied(row)
    /\ ResolvedFor(row, entries).ok
    /\ UnboundMarkers(row.query_template, ResolvedFor(row, entries).v) # {}

ActiveSlugs(catalog) == {catalog[i].slug : i \in {i \in DOMAIN catalog : catalog[i].is_active}}

\* the batch without the entries whose slug has no active row
WithoutMissing(entries, catalog) ==
    SelectSeq(entries, LAMBDA e : e.slug \in ActiveSlugs(catalog))

\* C25: in an answered batch every requested chart slug without an active row in
\* graficos_dashboard has errors[slug] = "Gráfico não encontrado ou inativo.", every
\* requested table slug other than the base table without an active row in
\* dashboard_tables has tableErrors[slug] = "Tabela não encontrada ou inativa.", and
\* every row the loops visited has the rows or the error it has in the same batch
\* without the slugs that have no active row.
C25_NotFoundPerSlug ==
    Answered =>
        /\ \A slug \in SlugsOf(fud.requestedGraphs) \ ActiveSlugs(ChartCatalog) :
              /\ slug \in DOMAIN fud.errors
              /\ fud.errors[slug] = Err("Gráfico não encontrado ou inativo.")
        /\ \A slug \in (SlugsOf(fud.requestedTables) \ {"clientes"}) \ ActiveSlugs(TableCatalog) :
              /\ slug \in DOMAIN fud.tableErrors
              /\ fud.tableErrors[slug] = Err("Tabela não encontrada ou inativa.")
        /\ (fud.chartLoop /\ fud.requestedGraphs # <<>>) =>
              \A i \in DOMAIN fud.chartMeta :
                 LET row == fud.chartMeta[i]
                     without == ChartStep([IdleFud EXCEPT
                                    !.requestedGraphs =
                                        WithoutMissing(fud.requestedGraphs, ChartCatalog),
                                    !.userRoles = fud.userRoles,
                                    !.queue = <<row>>], row)
                 IN  /\ row.id \in fud.datasets <=> row.id \in without.datasets
                     /\ row.slug \in DOMAIN fud.errors <=> row.slug \in DOMAIN without.errors
                     /\ row.slug \in DOMAIN fud.errors =>
                           fud.errors[row.slug] = without.errors[row.slug]
        /\ (fud.tableLoop /\ filteredTableSlugs(fud) # {}) =>
              \A i \in DOMAIN fud.tableMeta :
                 LET row == fud.tableMeta[i]
                     without == TableStep([IdleFud EXCEPT
                                    !.requestedTables =
                                        WithoutMissing(fud.requestedTables, TableCatalog),
                                    !.userRoles = fud.userRoles,
                                    !.queue = <<row>>], row)
                 IN  /\ row.id \in fud.tableRows <=> row.id \in without.tableRows
                     /\ row.slug \in DOMAIN fud.tableErrors <=>
                           row.slug \in DOMAIN without.tableErrors
                     /\ row.slug \in DOMAIN fud.tableErrors =>
                           fud.tableErrors[row.slug] = without.tableErrors[row.slug]

\* a chart batch naming an unknown slug and the inactive row next to "sales", and a
\* table batch naming an unknown table next to "orders"
C25_Witness ==
    /\ Answered
    /\ \/ /\ SlugsOf(fud.requestedGraphs) = {"old", "sales"}
          /\ DOMAIN fud.errors = {"old"}
          /\ fud.errors["old"] = Err("Gráfico não encontrado ou inativo.")
          /\ fud.datasets = {7}
       \/ /\ SlugsOf(fud.requestedTables) = {"notable", "orders"}
          /\ DOMAIN fud.tableErrors = {"notable"}
          /\ fud.tableErrors["notable"] = Err("Tabela não encontrada ou inativa.")
          /\ fud.tableRows = {3}

(***************************************************************************)
(* Claims about authentication and authorization.                          *)
(***************************************************************************)
\* the endpoints of the device store that read a bearer token
TokenEndpoints == {"registerLoginEvent", "checkDeviceStatus", "toggleCustomerPaused"}

\* C26: every step of a request to an endpoint that requires a bearer token, sent
\* without a token or with one the identity provider rejects, leaves the device store
\* and the login-event log as they are, and the answer to such a request is 401.
C26_Unauthenticated401 ==
    [][\A r \in ReqIds :
          (/\ req'[r] # req[r]
           /\ req'[r].kind \in TokenEndpoints
           /\ req'[r].bearer \notin Users)
          => /\ devices' = devices
             /\ loginEvents' = loginEvents
             /\ req'[r].pc = "done" => req'[r].status = 401]_vars

\* the union of the roles at app_metadata.role, user_metadata.role, app_metadata.roles
\* and user_metadata.roles
RoleUnion(user) ==
    ({user.app_role, user.user_role} \ {"none"}) \cup user.app_roles \cup user.user_roles

\* C27: a request to an admin endpoint by an authenticated principal whose roles do
\* not include admin is answered 403 and does none of the administrative work.
C27_NonAdmin403 ==
    \A a \in AdmIds :
        (/\ adm[a].pc = "done"
         /\ adm[a].bearer \in Users
         /\ "admin" \notin RoleUnion(metadata[adm[a].bearer]))
        => /\ adm[a].status = 403
           /\ ~\E w \in adminWork : w.req = a

\* C28: every admin endpoint lets a principal past its role check if and only if
\* the union of the four role locations contains admin.
C28_AdmitIffAdminInUnion ==
    \A a \in AdmIds :
        (adm[a].pc # "idle" /\ adm[a].bearer \in Users)
        => ("role" \in Range(adm[a].checks)
                <=> "admin" \in RoleUnion(metadata[adm[a].bearer]))

\* C29: the roles the batch checks allowed_roles against are the roles the shared
\* helper extractRoles gives for the caller, so the table "orders", whose
\* allowed_roles is ["user"], is not served to a caller without the role "user".
C29_GateUsesPrincipalRoles ==
    fud.chartLoop =>
        /\ fud.userRoles = extractRoles(metadata[fud.bearer])
        /\ "user" \notin extractRoles(metadata[fud.bearer]) => 3 \notin fud.tableRows

(***************************************************************************)
(* Claims about registerUser's rollback (SpecAdmin).                       *)
(***************************************************************************)
Did(a, op) == [req |-> a, op |-> op] \in adminWork

C31_DuplicateSlugIs409 ==
    /\ \A slug \in Slugs : dashboard_tables[slug] <= 1 /\ graficos[slug] <= 1
    /\ \A a \in AdmIds :
          (/\ adm[a].endpoint \in {"manageTable", "manageGraph"}
           /\ adm[a].pc = "done"
           /\ Did(a, "select"))
          => /\ adm[a].status \in {201, 409}
             /\ adm[a].status = 409 => ~Did(a, "insert")

(***************************************************************************)
(* Claims about the base table and the tenant of a request.                *)
(***************************************************************************)
\* C32: the list tables of the response holds the base table clientes (id 0) only
\* when it was requested or no table slug was given, and never when the tenant
\* database has no table clientes.
C32_BaseTableOnlyIfExists ==
    (fud.pc # "idle" /\ \E i \in DOMAIN fud.tables : fud.tables[i] = 0) =>
        /\ shouldIncludeBaseTable(fud)
        /\ ~("clientes" \in DOMAIN fud.tableErrors
              /\ fud.tableErrors["clientes"] = NoClientesTable)

(***************************************************************************)
(* Claims about the frame of applyRateLimit (SpecRate).                    *)
(***************************************************************************)
\* C37: a call of applyRateLimit leaves every bucket other than the one of its own
\* identifier and key as it was, adds no other bucket, and a call answered 429 leaves
\* the whole map, its own bucket's count and resetAt included, as it was.
C37_RateLimitFrame ==
    [][Len(rlCalls') = Len(rlCalls) + 1 =>
          LET call == rlCalls'[Len(rlCalls')]
          IN  /\ DOMAIN rateLimitBuckets' = DOMAIN rateLimitBuckets \cup {call.bucket}
              /\ \A key \in DOMAIN rateLimitBuckets \ {call.bucket} :
                    rateLimitBuckets'[key] = rateLimitBuckets[key]
              /\ call.response.status = 429 => rateLimitBuckets' = rateLimitBuckets]_vars

\* a call was answered 429, time has passed since the bucket was made, and the map
\* holds the bucket of another identifier as well
C37_Witness ==
    /\ \E i \in DOMAIN rlCalls :
          /\ rlCalls[i].response.status = 429
          /\ rlCalls[i].at > 0
    /\ Cardinality(DOMAIN rateLimitBuckets) >= 2

(***************************************************************************)
(* Claims about the auto-default of an optional entry (SpecResolve).       *)
(***************************************************************************)
\* C38: for an entry that is not required, with no provided value and no key in
\* defaults, resolveParams does not fail: the value computeAutoDefaultValue makes up
\* passes normalizeValue, or the parameter is left out.
C38_AutoDefaultValidates ==
    (/\ rp.pc = "done"
     /\ ~rp.entry.required
     /\ ~HasValue(rp.provided, rp.name)
     /\ rp.name \notin DOMAIN rp.defaults)
    => rp.result.ok

(***************************************************************************)
(* Claims about pending devices (SpecDevice).                              *)
(***************************************************************************)
\* C36: in every reachable state of the device store a record whose status is
\* pending holds an approval token.
C36_PendingHasToken ==
    \A k \in Keys : devices[k].status = "pending" => devices[k].approval_token # Null

(***************************************************************************)
(* Claims about parseAllowedRoles (SpecParse).                             *)
(***************************************************************************)
\* the entries of the input: the items of a list, the pieces of a string
RoleEntries(value) ==
    CASE value.t = "arr" -> [i \in DOMAIN value.v |-> StringOfItem(value.v[i])]
      [] value.t = "str" -> SplitOnComma(value.v, <<>>)
      [] value.t \in {"null", "undef"} -> <<>>
      [] OTHER -> <<StringOfItem(value)>>

\* the positions of the entries that are not blank and whose trimmed text occurs at
\* no earlier position
FirstOccurrences(entries) ==
    {i \in DOMAIN entries :
        /\ Trim(entries[i]) # <<>>
        /\ \A j \in 1..(i - 1) : Trim(entries[j]) # Trim(entries[i])}

IsIncreasing(f) == \A i, j \in DOMAIN f : i < j => f[i] < f[j]

\* C34: parseAllowedRoles returns a non-empty list of trimmed, non-blank, pairwise
\* distinct names; when the input has an entry that is not blank the list is the
\* trimmed entries in the order of their first occurrence, and when the input is
\* null, undefined, empty or has only blank entries it is ["user", "authenticated"].
C34_ParseAllowedRoles ==
    pa.pc = "done" =>
        LET entries == RoleEntries(pa.value)
            first == FirstOccurrences(entries)
        IN  /\ pa.result # <<>>
            /\ \A i \in DOMAIN pa.result :
                  /\ pa.result[i] # <<>>
                  /\ Trim(pa.result[i]) = pa.result[i]
                  /\ \A j \in DOMAIN pa.result : i # j => pa.result[i] # pa.result[j]
            /\ first = {} => pa.result = DefaultFallback
            /\ first # {} =>
                  /\ Len(pa.result) = Cardinality(first)
                  /\ \E at \in [DOMAIN pa.result -> first] :
                        /\ IsIncreasing(at)
                        /\ \A i \in DOMAIN pa.result : pa.result[i] = Trim(entries[at[i]])

\* the string " b,a" parsed: the names b and a, in that order
C34_Witness ==
    /\ pa.pc = "done"
    /\ pa.value = Str(<<" ", "b", ",", "a">>)
    /\ pa.result = << <<"b">>, <<"a">> >>

(***************************************************************************)
(* Claims about the order of the preamble (SpecGate) and about the tenant  *)
(* a request is routed to (SpecTenant).                                    *)
(***************************************************************************)
\* the request went through applyRateLimit and was let through
PassedLimiter(g) ==
    /\ gw[g].pc # "idle"
    /\ gw[g].endpoint \in LimitedEndpoints
    /\ gw[g].method \in AllowedMethods(gw[g].endpoint)
    /\ gw[g].status # 429

KeyOf(g) == GateBucketKey(gw[g].endpoint, gw[g].bearer)

GateKeys == {GateBucketKey(e, b) : e \in LimitedEndpoints, b \in GateBearers}

CountOf(key) == IF key \in DOMAIN rateLimitBuckets THEN rateLimitBuckets[key].count ELSE 0

\* C35: on the four rate-limited endpoints a request answered 429 has made no identity
\* provider call, no device-store access, no LoginEvent insert and no tenant access,
\* and found its bucket full; a preflight or a request with a method that is not
\* allowed is not counted; every other request that the limiter let through has
\* added one to its bucket, whatever its authentication gave later
C35_RateLimitBeforeAuth ==
    /\ \A g \in GwIds :
          /\ gw[g].status = 429 =>
                /\ gw[g].effects = <<>> /\ gw[g].ran = <<>>
                /\ gw[g].principal = "none" /\ gw[g].coords = "none"
                /\ CountOf(KeyOf(g)) >= GateOptions(gw[g].endpoint).max
          /\ gw[g].effects # <<>> => PassedLimiter(g)
    /\ \A key \in GateKeys :
          CountOf(key) = Cardinality({g \in GwIds : PassedLimiter(g) /\ KeyOf(g) = key})

\* a registerLoginEvent request without Authorization header was answered 401 and used the
\* bucket up; the next one, with a valid token, was answered 429
C35_Witness ==
    /\ gw[1].endpoint = "registerLoginEvent" /\ gw[1].bearer = "none" /\ gw[1].status = 401
    /\ gw[2].endpoint = "registerLoginEvent" /\ gw[2].bearer = "u1" /\ gw[2].status = 429

\* C33: in fetchUserData and toggleCustomerPaused every query of a request runs on the
\* coordinates of the db_info row whose id_user is the principal of the bearer token, and
\* on the coordinates of no other principal; requests with the same token use the same
\* coordinates whatever their body and device header say
C33_TenantRouting ==
    /\ \A g \in GwIds :
          /\ gw[g].coords # "none" => gw[g].coords = TenantOf(gw[g].bearer)
          /\ \A i \in DOMAIN gw[g].ran :
                /\ gw[g].bearer \in db_info
                /\ gw[g].ran[i] = TenantOf(gw[g].bearer)
                /\ \A other \in Users \ {gw[g].bearer} : gw[g].ran[i] # TenantOf(other)
    /\ \A g, h \in GwIds :
          gw[g].bearer = gw[h].bearer =>
              \A i \in DOMAIN gw[g].ran, j \in DOMAIN gw[h].ran : gw[g].ran[i] = gw[h].ran[j]

\* u1's fetchUserData names u2 in its body and ran both queries on u1's database; u2's
\* toggleCustomerPaused names u1 and ran its UPDATE on u2's database
C33_Witness ==
    /\ gw[1].endpoint = "fetchUserData" /\ gw[1].bearer = "u1" /\ gw[1].body = "u2"
    /\ gw[1].ran = <<TenantOf("u1"), TenantOf("u1")>>
    /\ gw[2].endpoint = "toggleCustomerPaused" /\ gw[2].bearer = "u2" /\ gw[2].body = "u1"
    /\ gw[2].ran = <<TenantOf("u2")>>

====
